---- MODULE Spec2Model ----
(***************************************************************************)
(* ReviewScraper: the job queue, its workers and dead-letter manager, the  *)
(* lifecycle supervisor and the scrape processor, as state machines.       *)
(*                                                                         *)
(* SpecQueue    : queue facade, worker wrapper, dead-letter manager        *)
(* SpecShutdown : GracefulShutdown.shutdown over its registered handlers   *)
(* SpecScrape   : ScraperWorker.processScrapingJob against a catalog       *)
(*                                                                         *)
(* The broker (BullMQ) is the environment: a processor that returns makes  *)
(* its job completed, a processor that throws consumes one attempt and     *)
(* sends the job to delayed (attempts left) or failed (none left), and     *)
(* Worker.close() resolves once no job of the worker is in progress.       *)
(***************************************************************************)
EXTENDS Integers, Sequences, FiniteSets, TLC

VARIABLES jobs, dlq, dlqSeq, worker, replay, addOutcome,
          handlers, shutdownTimeoutMs, sphase, sorted, cur, hrunning, hstart, now,
          throwTimers, emergencyTimers, exitCode, slog,
          pjob, ppc, appInfo, apps, si, ci, pageNum, pairReviews, acc, completed, progress,
          reviewsTable, savedCount, saveIdx, result,
          observed, superseded, requested, fetchErrors, failedIds,
          catalog, run, firstRun, emptyPages,
          ljob, lpc, lreviews, bstart, results, fallbackAt, labelsTable, lsaveIdx,
          lsavedCount, lfailedRows, lresult, lprogress, llmKinds,
          wkind, wenv, wnow, wactive, limCount, limExpiry, wstarts,
          bulkRetry,
          dnow, lastSweep,
          checkers, hpc, pendingChecks, dependencies, overallStatus, lastHealthCheck,
          svc, isRunning, queuesState, connState,
          queues, created, getQueuePc,
          lazyConnect, redis, clients, isConnecting, connectionPromise, connectPc,
          globalInstance, instanceSeq, lastCall,
          lastOp,
          multi,
          tx, released, txCall, wt,
          codecIn, codecOut,
          pool, poolSeq, poolCall, tested

qvars == <<jobs, dlq, dlqSeq, worker, replay, addOutcome>>

svars == <<handlers, shutdownTimeoutMs, sphase, sorted, cur, hrunning, hstart, now,
           throwTimers, emergencyTimers, exitCode, slog>>

\* the scrape processor: the job's data, the locals of processScrapingJob, the two tables
\* it writes, its result, and the history of what the catalog and the database answered
pvars == <<pjob, ppc, appInfo, apps, si, ci, pageNum, pairReviews, acc, completed, progress,
           reviewsTable, savedCount, saveIdx, result,
           observed, superseded, requested, fetchErrors, failedIds>>

\* a job run a second time: the catalog's fixed answers, the number of the run, what the
\* first run left behind; and, of the run under way, the pages that came back empty
rvars == <<catalog, run, firstRun, emptyPages>>

\* the label processor: the job's data, the locals of processLabelingJob, labelReviews
\* and saveLabelResults, the labels table, the job's result, the batches that fell back
\* to the default label and the kind of answer the LLM gave for each batch
lvars == <<ljob, lpc, lreviews, bstart, results, fallbackAt, labelsTable, lsaveIdx,
           lsavedCount, lfailedRows, lresult, lprogress, llmKinds>>

\* the broker's worker of one kind and its rate limiter: the kind and the environment,
\* the time in ticks, the jobs in progress, the limiter's counter and the time it expires
\* (0: no counter), and the number of jobs started at each tick
wvars == <<wkind, wenv, wnow, wactive, limCount, limExpiry, wstarts>>

\* the last call of retryByFailureReason: its arguments and what it returned
dvars == <<bulkRetry>>

\* the dead-letter sweep: the time in units of ten days and the last call of
\* cleanDeadLetterQueue
cvars == <<dnow, lastSweep>>

\* the health monitor: the registered checkers, the place of checkHealth, the checks not
\* yet settled, the status of the settled ones, the overall status so far, and the status
\* of the last health returned
hvars == <<checkers, hpc, pendingChecks, dependencies, overallStatus, lastHealthCheck>>

\* the scraper service: the place of each call of shutdown(), the running flag, the
\* queues of the factory and the broker connection
ivars == <<svc, isRunning, queuesState, connState>>

\* the queue factory: its map of queues, the Queue objects made so far and the place of
\* each call of getQueue
fvars == <<queues, created, getQueuePc>>

\* one QueueConnection: its configuration and fields, the Redis clients made so far and
\* the place of each call of connect or getConnection
nvars == <<lazyConnect, redis, clients, isConnecting, connectionPromise, connectPc>>

\* the module-level instances of a process and the last call on them
uvars == <<globalInstance, instanceSeq, lastCall>>

\* the last operation called on the scraper service
yvars == <<lastOp>>

\* the last call of queueMultipleLabelingJobs
mvars == <<multi>>

\* one Transaction, how often each client it acquired was released, the place of each
\* call on it, and one call of withTransaction
tvars == <<tx, released, txCall, wt>>

\* the last payload handed to the codec and what the codec answered
kvars == <<codecIn, codecOut>>

\* one DatabasePool: its pg pool, the pg pools it has made, the place of each call on it,
\* and the pg pools whose connection test has succeeded
bvars == <<pool, poolSeq, poolCall, tested>>

\* the service facade, the database layer and the codec
evars == <<yvars, mvars, tvars, kvars, bvars>>

\* what the actions on lastOp, on multi and on the transaction leave alone in evars
exY == <<mvars, tvars, kvars, bvars>>
exM == <<yvars, tvars, kvars, bvars>>
exT == <<yvars, mvars, kvars, bvars>>
exK == <<yvars, mvars, tvars, bvars>>
exB == <<yvars, mvars, tvars, kvars>>

\* the shared objects of a process
gvars == <<fvars, nvars, uvars, evars>>

\* the components of the service layer
xvars == <<cvars, hvars, ivars, gvars>>

vars == <<qvars, svars, pvars, rvars, lvars, wvars, dvars, xvars>>

---------------------------------------------------------------------------
(* Bounds of the model *)

MaxJobs == 2
MaxDlq == 2

---------------------------------------------------------------------------
(* Job codec: shared/src/queue/types.ts *)

Kinds == {"scrape_reviews", "label_reviews"}

\* An optional field is a sequence of length 0 (absent) or 1 (given).
Opt(field, default) == IF Len(field) = 0 THEN default ELSE field[1]

ScrapeRaw(appId, pages, retryAttempts) ==
  [appId |-> appId, pages |-> pages, retryAttempts |-> retryAttempts]

LabelRaw(reviewIds, batchSize, retryAttempts) ==
  [reviewIds |-> reviewIds, batchSize |-> batchSize, retryAttempts |-> retryAttempts]

\* the payloads clients hand to addJob: some that satisfy the schema of the
\* kind, and one for each constraint a payload can violate
RawPayloads(k) ==
  IF k = "scrape_reviews"
  THEN {ScrapeRaw("a1", <<>>, <<>>), ScrapeRaw("a1", <<>>, <<1>>),
        ScrapeRaw("", <<>>, <<>>), ScrapeRaw("a1", <<11>>, <<>>),
        ScrapeRaw("a1", <<>>, <<6>>)}
  ELSE {LabelRaw(<<"r1">>, <<>>, <<1>>),
        LabelRaw(<<>>, <<>>, <<>>), LabelRaw(<<"">>, <<>>, <<>>),
        LabelRaw(<<"r1">>, <<101>>, <<>>), LabelRaw(<<"r1">>, <<>>, <<6>>)}

DefaultRetryAttempts == 3

BaseJobConfigOk(p) ==
  LET r == Opt(p.retryAttempts, DefaultRetryAttempts) IN r >= 0 /\ r <= 5

ScrapeReviewsJobOk(p) ==
  /\ Len(p.appId) >= 1
  /\ LET n == Opt(p.pages, 5) IN n >= 1 /\ n <= 10
  /\ BaseJobConfigOk(p)

LabelReviewsJobOk(p) ==
  /\ Len(p.reviewIds) >= 1
  /\ \A i \in 1..Len(p.reviewIds) : Len(p.reviewIds[i]) >= 1
  /\ LET b == Opt(p.batchSize, 20) IN b >= 1 /\ b <= 100
  /\ BaseJobConfigOk(p)

SchemaOkAlwaysAccepts(k, p) == TRUE

\* schema.parse succeeds
SchemaOk(k, p) ==
  IF k = "scrape_reviews" THEN ScrapeReviewsJobOk(p) ELSE LabelReviewsJobOk(p)

\* schema.parse(payload): the payload with the defaults applied
validateJobPayload(k, p) ==
  IF k = "scrape_reviews"
  THEN [appId |-> p.appId, pages |-> Opt(p.pages, 5),
        retryAttempts |-> Opt(p.retryAttempts, DefaultRetryAttempts)]
  ELSE [reviewIds |-> p.reviewIds, batchSize |-> Opt(p.batchSize, 20),
        retryAttempts |-> Opt(p.retryAttempts, DefaultRetryAttempts)]

---------------------------------------------------------------------------
(* Queue facade: shared/src/queue/factory.ts *)

\* A job as the broker holds it.  phase is the place of its processor:
\* "handed" the broker gave it to the worker, "running" processJob is past
\* its shutdown guard.  procFailures counts the attempts in which the
\* processor hit a job-level fault or threw.
NewJob(k, data, attempts) ==
  [kind |-> k, data |-> data, attempts |-> attempts, attemptsMade |-> 0,
   state |-> "waiting", phase |-> "none", result |-> "none", procFailures |-> 0]

JobIds == 1..Len(jobs)

\* options.attempts || validatedData.retryAttempts || 3, with no options given
JobAttempts(v) == IF v.retryAttempts # 0 THEN v.retryAttempts ELSE 3

AddJob(k, p) ==
  IF ~SchemaOk(k, p)
  THEN /\ addOutcome' = "InvalidPayload"
       /\ UNCHANGED <<jobs, dlq, dlqSeq, worker, replay, svars, pvars, rvars, lvars, wvars, dvars, xvars>>
  ELSE LET v == validateJobPayload(k, p) IN
       /\ Len(jobs) < MaxJobs
       /\ jobs' = Append(jobs, NewJob(k, v, JobAttempts(v)))
       /\ addOutcome' = "added"
       /\ UNCHANGED <<dlq, dlqSeq, worker, replay, svars, pvars, rvars, lvars, wvars, dvars, xvars>>

---------------------------------------------------------------------------
(* Worker wrappers: scraper/src/queue-worker.ts and its LABEL twin, and   *)
(* the processors they call                                               *)

\* ScraperWorker.getWorkerConfig().concurrency in development
Concurrency == 1

InProgress(k) == {j \in JobIds : jobs[j].kind = k /\ jobs[j].state = "active"}

\* the broker hands a waiting job to the worker of its kind
Reserve(j) ==
  /\ jobs[j].state = "waiting"
  /\ ~worker[jobs[j].kind].isShuttingDown
  /\ Cardinality(InProgress(jobs[j].kind)) < Concurrency
  /\ jobs' = [jobs EXCEPT ![j].state = "active", ![j].phase = "handed"]
  /\ UNCHANGED <<dlq, dlqSeq, worker, replay, addOutcome, svars, pvars, rvars, lvars, wvars, dvars, xvars>>

\* the broker's treatment of a processor that threw
FailAttempt(job) ==
  LET made == job.attemptsMade + 1 IN
  [job EXCEPT !.attemptsMade = made,
              !.state = IF made < job.attempts THEN "delayed" ELSE "failed",
              !.phase = "none",
              !.procFailures = @ + 1]

\* the broker's treatment of a processor that returned a JobResult
CompleteJob(job, res) ==
  [job EXCEPT !.state = "completed", !.phase = "none",
              !.result = IF res.success THEN "success" ELSE "failure",
              !.procFailures = IF res.success THEN @ ELSE @ + 1]

\* processJob, lines 47-49: the guard on isShuttingDown
ProcessJobGuard(j) ==
  /\ jobs[j].state = "active" /\ jobs[j].phase = "handed"
  /\ IF worker[jobs[j].kind].isShuttingDown
     THEN jobs' = [jobs EXCEPT ![j] = FailAttempt(jobs[j])]
     ELSE jobs' = [jobs EXCEPT ![j].phase = "running"]
  /\ UNCHANGED <<dlq, dlqSeq, worker, replay, addOutcome, svars, pvars, rvars, lvars, wvars, dvars, xvars>>

\* processScrapingJob: a fault of step 1-2 is caught (lines 124-139)
processScrapingJob(dbReachable) == [success |-> dbReachable]

\* processLabelingJob: "No reviews found" is thrown and caught (lines 56-58, 97-115)
processLabelingJob(resolved) == [success |-> resolved > 0]

\* processJob, lines 57-79: the processor's result is returned to the broker
ProcessJobBody(j, dbReachable, resolved) ==
  /\ jobs[j].state = "active" /\ jobs[j].phase = "running"
  /\ LET res == IF jobs[j].kind = "scrape_reviews"
                   THEN processScrapingJob(dbReachable)
                   ELSE processLabelingJob(resolved)
     IN jobs' = [jobs EXCEPT ![j] = CompleteJob(jobs[j], res)]
  /\ UNCHANGED <<dlq, dlqSeq, worker, replay, addOutcome, svars, pvars, rvars, lvars, wvars, dvars, xvars>>

\* the backoff of a retried job has elapsed
PromoteDelayed(j) ==
  /\ jobs[j].state = "delayed"
  /\ jobs' = [jobs EXCEPT ![j].state = "waiting"]
  /\ UNCHANGED <<dlq, dlqSeq, worker, replay, addOutcome, svars, pvars, rvars, lvars, wvars, dvars, xvars>>

\* shutdown(timeoutMs), lines 188-199: the flag is set and worker.close() awaited
Shutdown(k) ==
  /\ ~worker[k].isShuttingDown
  /\ worker' = [worker EXCEPT ![k].isShuttingDown = TRUE]
  /\ UNCHANGED <<jobs, dlq, dlqSeq, replay, addOutcome, svars, pvars, rvars, lvars, wvars, dvars, xvars>>

\* worker.close() resolves: no job of the worker is in progress
ShutdownReturns(k) ==
  /\ worker[k].isShuttingDown /\ ~worker[k].closed
  /\ InProgress(k) = {}
  /\ worker' = [worker EXCEPT ![k].closed = TRUE]
  /\ UNCHANGED <<jobs, dlq, dlqSeq, replay, addOutcome, svars, pvars, rvars, lvars, wvars, dvars, xvars>>

\* timeoutMs have passed since shutdown(timeoutMs) was called
GraceElapses(k) ==
  /\ worker[k].isShuttingDown
  /\ ~worker[k].graceElapsed
  /\ worker' = [worker EXCEPT ![k].graceElapsed = TRUE]
  /\ UNCHANGED <<jobs, dlq, dlqSeq, replay, addOutcome, svars, pvars, rvars, lvars, wvars, dvars, xvars>>

---------------------------------------------------------------------------
(* Dead-letter manager: shared/src/queue/deadletter.ts *)

Operators == {"op1", "op2"}

Reasons == {"timeout", "db timeout"}

NoRecord == [id |-> 0]

Idle == [pc |-> "idle", kind |-> "none", rec |-> NoRecord, newJob |-> 0]

\* moveToDeadLetter(jobType, job, error): a record is added to K_dlq
MoveToDeadLetter(j, reason) ==
  /\ dlqSeq < MaxDlq
  /\ dlqSeq' = dlqSeq + 1
  /\ dlq' = dlq \cup {[id |-> dlqSeq + 1,
                        queue |-> jobs[j].kind,
                        originalJobData |-> jobs[j].data,
                        originalJobId |-> j,
                        failureReason |-> reason,
                        failedAt |-> dnow,
                        attemptsMade |-> jobs[j].attemptsMade]}
  /\ UNCHANGED <<jobs, worker, replay, addOutcome, svars, pvars, rvars, lvars, wvars, dvars, xvars>>

\* retryFromDeadLetter, lines 119-125: dlq.getJob(dlqJobId)
ReplayGet(o, k, id) ==
  /\ replay[o].pc = "idle"
  /\ LET found == {r \in dlq : r.queue = k /\ r.id = id} IN
     IF found = {}
     THEN replay' = [replay EXCEPT ![o] = [Idle EXCEPT !.pc = "notfound", !.kind = k]]
     ELSE replay' = [replay EXCEPT ![o] =
                       [pc |-> "got", kind |-> k, rec |-> CHOOSE r \in found : TRUE,
                        newJob |-> 0]]
  /\ UNCHANGED <<jobs, dlq, dlqSeq, worker, addOutcome, svars, pvars, rvars, lvars, wvars, dvars, xvars>>

ReplayDataWholeRecord(rec) == rec

\* the data the replayed job is given (line 130)
ReplayData(rec) == rec.originalJobData

\* retryFromDeadLetter, lines 127-138: originalQueue.add with attempts: 3, while K has
\* had fewer than cap jobs
ReplayAddWithin(o, cap) ==
  /\ replay[o].pc = "got"
  /\ Len(jobs) < cap
  /\ jobs' = Append(jobs, NewJob(replay[o].kind, ReplayData(replay[o].rec), 3))
  /\ replay' = [replay EXCEPT ![o].pc = "added", ![o].newJob = Len(jobs) + 1]
  /\ UNCHANGED <<dlq, dlqSeq, worker, addOutcome, svars, pvars, rvars, lvars, wvars, dvars, xvars>>

ReplayAdd(o) == ReplayAddWithin(o, MaxJobs)

\* what dlqJob.remove() leaves of K_dlq (line 141)
ReplayRemoved(rec) == {r \in dlq : r.id # rec.id}

ReplayRemove(o) ==
  /\ replay[o].pc = "added"
  /\ dlq' = ReplayRemoved(replay[o].rec)
  /\ replay' = [replay EXCEPT ![o].pc = "returned"]
  /\ UNCHANGED <<jobs, dlqSeq, worker, addOutcome, svars, pvars, rvars, lvars, wvars, dvars, xvars>>

\* dlqJob.remove() rejects (the broker is unreachable): replay throws
ReplayRemoveFails(o) ==
  /\ replay[o].pc = "added"
  /\ replay' = [replay EXCEPT ![o].pc = "threw"]
  /\ UNCHANGED <<jobs, dlq, dlqSeq, worker, addOutcome, svars, pvars, rvars, lvars, wvars, dvars, xvars>>

\* the caller is free for its next call
ReplayDone(o) ==
  /\ replay[o].pc \in {"returned", "threw", "notfound"}
  /\ replay' = [replay EXCEPT ![o] = Idle]
  /\ UNCHANGED <<jobs, dlq, dlqSeq, worker, addOutcome, svars, pvars, rvars, lvars, wvars, dvars, xvars>>

Min(a, b) == IF a <= b THEN a ELSE b

\* no call of retryByFailureReason is in progress
NoBulkRetry ==
  [pc |-> "idle", kind |-> "none", failureReason |-> "", maxJobs |-> <<>>,
   retried |-> <<>>, threw |-> 0]

\* dlqJobs.filter(job => job.data.failureReason === failureReason)
matchingJobs(k, failureReason) ==
  {r \in dlq : r.queue = k /\ r.failureReason = failureReason}

\* options.maxJobs || 10
SliceEnd(maxJobs) == IF Len(maxJobs) = 0 \/ maxJobs[1] = 0 THEN 10 ELSE maxJobs[1]

\* the records of a set in the order of their ids
ById(recs) ==
  CHOOSE q \in [1..Cardinality(recs) -> recs] :
    \A i, j \in 1..Cardinality(recs) : i < j => q[i].id < q[j].id

\* one turn of the loop of retryByFailureReason: retryFromDeadLetter adds the job and
\* removes the record, or throws at originalQueue.add, or throws at dlqJob.remove;
\* what it throws is caught and logged
RetryOne(st, rec, outcome) ==
  IF outcome = "addThrew"
  THEN [st EXCEPT !.threw = @ + 1]
  ELSE LET added == Append(st.jobs, NewJob(rec.queue, ReplayData(rec), 3)) IN
       IF outcome = "removeThrew"
       THEN [st EXCEPT !.jobs = added, !.threw = @ + 1]
       ELSE [jobs |-> added, dlq |-> st.dlq \ {rec},
             retried |-> Append(st.retried, Len(added)), threw |-> st.threw]

RECURSIVE RetryEach(_, _, _)
RetryEach(st, recs, outcomes) ==
  IF Len(recs) = 0 THEN st
  ELSE RetryEach(RetryOne(st, Head(recs), outcomes[Head(recs).id]), Tail(recs), outcomes)

RetryOutcomes == {"retried", "addThrew", "removeThrew"}

\* retryByFailureReason(jobType, failureReason, {maxJobs})
retryByFailureReason(k, failureReason, maxJobs) ==
  /\ bulkRetry.pc = "idle"
  /\ \E sliced \in SUBSET matchingJobs(k, failureReason) :
       /\ Cardinality(sliced) =
            Min(Cardinality(matchingJobs(k, failureReason)), SliceEnd(maxJobs))
       /\ \E outcomes \in [{r.id : r \in sliced} -> RetryOutcomes] :
            LET st == RetryEach([jobs |-> jobs, dlq |-> dlq, retried |-> <<>>, threw |-> 0],
                                ById(sliced), outcomes) IN
              /\ Len(st.jobs) <= MaxJobs
              /\ jobs' = st.jobs
              /\ dlq' = st.dlq
              /\ bulkRetry' = [pc |-> "returned", kind |-> k,
                               failureReason |-> failureReason, maxJobs |-> maxJobs,
                               retried |-> st.retried, threw |-> st.threw]
  /\ UNCHANGED <<dlqSeq, worker, replay, addOutcome, svars, pvars, rvars, lvars, wvars, xvars>>

\* the caller of retryByFailureReason is free for its next call
BulkRetryDone ==
  /\ bulkRetry.pc = "returned"
  /\ bulkRetry' = NoBulkRetry
  /\ UNCHANGED <<qvars, svars, pvars, rvars, lvars, wvars, xvars>>

MaxSweepTime == 4

\* olderThanMs = 30 * 24 * 60 * 60 * 1000, in units of ten days
DefaultOlderThan == 3

NoSweep == [kind |-> "none", olderThan |-> 0, totalCleaned |-> 0]

\* the state of a record in the queue K_dlq: dlq.add puts it in the waiting set, and no
\* worker is created for a queue K_dlq, so it stays there
DlqJobState(rec) == "waiting"

\* dlq.clean(olderThanMs, 0, type): the records of the given state that are older than
\* the grace period
clean(k, olderThan, type) ==
  {r \in dlq : r.queue = k /\ DlqJobState(r) = type /\ dnow - r.failedAt > olderThan}

\* cleanDeadLetterQueue(jobType, olderThanMs), also the body of setupAutomaticCleanup
cleanDeadLetterQueue(k, olderThanMs) ==
  LET olderThan == Opt(olderThanMs, DefaultOlderThan)
      cleanedCompleted == clean(k, olderThan, "completed")
      cleanedFailed == clean(k, olderThan, "failed")
  IN /\ dlq' = (dlq \ cleanedCompleted) \ cleanedFailed
     /\ lastSweep' = [kind |-> k, olderThan |-> olderThan,
                      totalCleaned |-> Cardinality(cleanedCompleted)
                                         + Cardinality(cleanedFailed)]
     /\ UNCHANGED <<jobs, dlqSeq, worker, replay, addOutcome, dnow, svars, pvars, rvars,
                    lvars, wvars, dvars, hvars, ivars, gvars>>

\* the caller of cleanDeadLetterQueue has its answer
SweepDone ==
  /\ lastSweep # NoSweep
  /\ lastSweep' = NoSweep
  /\ UNCHANGED <<qvars, dnow, svars, pvars, rvars, lvars, wvars, dvars, hvars, ivars, gvars>>

\* ten days pass
SweepTick ==
  /\ dnow < MaxSweepTime
  /\ dnow' = dnow + 1
  /\ UNCHANGED <<qvars, lastSweep, svars, pvars, rvars, lvars, wvars, dvars, hvars, ivars, gvars>>

---------------------------------------------------------------------------
(* Lifecycle supervisor: shared/src/health/shutdown.ts.  Time is counted   *)
(* in ticks of 1000 ms from the start of shutdown().                       *)

DefaultHandlerPriority == 5
DefaultHandlerTimeout == 5
ShutdownTimeout == 30
EmergencyDelay == 1

Handler(name, priority, timeout) ==
  [name |-> name, priority |-> priority, timeout |-> timeout]

\* registerDefaultHandlers, in the order of registration
DefaultHandlers ==
  <<Handler("health-monitor", 1, 2), Handler("database", 5, 10),
    Handler("final-cleanup", 10, 1)>>

UserNames == {"a", "b"}

\* the priority a caller gives: none, 0 or 3
UserPriorities == {<<>>, <<0>>, <<3>>}

\* Map.set: a known key keeps its place, a new key goes last
MapSet(m, h) ==
  IF \E i \in 1..Len(m) : m[i].name = h.name
  THEN [i \in 1..Len(m) |-> IF m[i].name = h.name THEN h ELSE m[i]]
  ELSE Append(m, h)

\* addHandler: {priority: 5, timeout: 5000, ...handler}
addHandler(name, priority) ==
  /\ sphase = "running"
  /\ handlers' = MapSet(handlers,
        Handler(name, Opt(priority, DefaultHandlerPriority), DefaultHandlerTimeout))
  /\ UNCHANGED <<shutdownTimeoutMs, sphase, sorted, cur, hrunning, hstart, now,
                 throwTimers, emergencyTimers, exitCode, slog, qvars, pvars, rvars, lvars, wvars, dvars, xvars>>

removeHandler(name) ==
  /\ sphase = "running"
  /\ \E i \in 1..Len(handlers) : handlers[i].name = name
  /\ LET Keep(h) == h.name # name IN handlers' = SelectSeq(handlers, Keep)
  /\ UNCHANGED <<shutdownTimeoutMs, sphase, sorted, cur, hrunning, hstart, now,
                 throwTimers, emergencyTimers, exitCode, slog, qvars, pvars, rvars, lvars, wvars, dvars, xvars>>

\* setShutdownTimeout(timeoutMs), lines 241-243
setShutdownTimeout(t) ==
  /\ sphase = "running"
  /\ shutdownTimeoutMs' = t
  /\ UNCHANGED <<handlers, sphase, sorted, cur, hrunning, hstart, now,
                 throwTimers, emergencyTimers, exitCode, slog, qvars, pvars, rvars, lvars, wvars, dvars, xvars>>

\* the sort key of line 151: (a.priority || 5)
SortKey(h) == IF h.priority = 0 THEN 5 ELSE h.priority

\* Array.prototype.sort with that comparator (a stable sort)
RECURSIVE SortHandlers(_)
SortHandlers(seq) ==
  IF seq = <<>> THEN <<>>
  ELSE LET h == Head(seq)
           rest == SortHandlers(Tail(seq))
           Before(x) == SortKey(x) < SortKey(h)
           NotBefore(x) == ~Before(x)
       IN SelectSeq(rest, Before) \o <<h>> \o SelectSeq(rest, NotBefore)

\* shutdown(), lines 128-152, on a signal
shutdown ==
  /\ sphase = "running"
  /\ sphase' = "shutdown"
  /\ sorted' = SortHandlers(handlers)
  /\ cur' = 0
  /\ UNCHANGED <<handlers, shutdownTimeoutMs, hrunning, hstart, now, throwTimers, emergencyTimers,
                 exitCode, slog, qvars, pvars, rvars, lvars, wvars, dvars, xvars>>

\* lines 155-170: the next handler is called and raced against its timeout
StartHandler ==
  /\ sphase = "shutdown" /\ ~hrunning /\ cur < Len(sorted)
  /\ cur' = cur + 1
  /\ hrunning' = TRUE
  /\ hstart' = now
  /\ slog' = Append(slog, [ev |-> "start", name |-> sorted[cur + 1].name])
  /\ UNCHANGED <<handlers, shutdownTimeoutMs, sphase, sorted, now, throwTimers, emergencyTimers,
                 exitCode, qvars, pvars, rvars, lvars, wvars, dvars, xvars>>

HandlerDue == hstart + sorted[cur].timeout

\* lines 172-177: the handler resolved; its throwing timer is cleared
HandlerResolves ==
  /\ sphase = "shutdown" /\ hrunning
  /\ hrunning' = FALSE
  /\ slog' = Append(slog, [ev |-> "end", name |-> sorted[cur].name])
  /\ UNCHANGED <<handlers, shutdownTimeoutMs, sphase, sorted, cur, hstart, now, throwTimers,
                 emergencyTimers, exitCode, qvars, pvars, rvars, lvars, wvars, dvars, xvars>>

\* lines 178-185: the handler rejected; its throwing timer (line 161) stays set
HandlerRejects ==
  /\ sphase = "shutdown" /\ hrunning
  /\ hrunning' = FALSE
  /\ throwTimers' = throwTimers \cup {HandlerDue}
  /\ slog' = Append(slog, [ev |-> "end", name |-> sorted[cur].name])
  /\ UNCHANGED <<handlers, shutdownTimeoutMs, sphase, sorted, cur, hstart, now, emergencyTimers,
                 exitCode, qvars, pvars, rvars, lvars, wvars, dvars, xvars>>

\* emergencyShutdown, lines 215-229: exit(1) is scheduled
EmergencyScheduled == emergencyTimers \cup {now + EmergencyDelay}

\* both timers of lines 161-169 fire: the first throws outside any try
\* (an uncaught exception), the second rejects the race
HandlerTimesOut ==
  /\ sphase = "shutdown" /\ hrunning
  /\ now >= HandlerDue
  /\ hrunning' = FALSE
  /\ emergencyTimers' = EmergencyScheduled
  /\ slog' = Append(slog, [ev |-> "timeout", name |-> sorted[cur].name])
  /\ UNCHANGED <<handlers, shutdownTimeoutMs, sphase, sorted, cur, hstart, now, throwTimers,
                 exitCode, qvars, pvars, rvars, lvars, wvars, dvars, xvars>>

\* the throwing timer of a handler that rejected fires: an uncaught exception
ThrowTimerFires(t) ==
  /\ sphase \in {"shutdown", "done"}
  /\ t \in throwTimers /\ now >= t
  /\ throwTimers' = throwTimers \ {t}
  /\ emergencyTimers' = EmergencyScheduled
  /\ UNCHANGED <<handlers, shutdownTimeoutMs, sphase, sorted, cur, hrunning, hstart, now,
                 exitCode, slog, qvars, pvars, rvars, lvars, wvars, dvars, xvars>>

\* lines 188-199: all handlers were run; the force-exit timer is cleared
\* and exit(0) is scheduled 100 ms later
FinishHandlers ==
  /\ sphase = "shutdown" /\ ~hrunning /\ cur = Len(sorted)
  /\ sphase' = "done"
  /\ UNCHANGED <<handlers, shutdownTimeoutMs, sorted, cur, hrunning, hstart, now, throwTimers,
                 emergencyTimers, exitCode, slog, qvars, pvars, rvars, lvars, wvars, dvars, xvars>>

EmergencyDue == \E t \in emergencyTimers : now >= t

ExitZero ==
  /\ sphase = "done"
  /\ ~EmergencyDue
  /\ sphase' = "exited"
  /\ exitCode' = "0"
  /\ UNCHANGED <<handlers, shutdownTimeoutMs, sorted, cur, hrunning, hstart, now, throwTimers,
                 emergencyTimers, slog, qvars, pvars, rvars, lvars, wvars, dvars, xvars>>

\* a force-exit timer that ends the process with status 0
ForceExitStatusZero ==
  /\ sphase = "shutdown"
  /\ now >= shutdownTimeoutMs
  /\ sphase' = "exited"
  /\ exitCode' = "0"
  /\ UNCHANGED <<handlers, shutdownTimeoutMs, sorted, cur, hrunning, hstart, now, throwTimers,
                 emergencyTimers, slog, qvars, pvars, rvars, lvars, wvars, dvars, xvars>>

\* lines 143-146: the force-exit timer fires
ForceExit ==
  /\ sphase = "shutdown"
  /\ now >= shutdownTimeoutMs
  /\ sphase' = "exited"
  /\ exitCode' = "1"
  /\ UNCHANGED <<handlers, shutdownTimeoutMs, sorted, cur, hrunning, hstart, now, throwTimers,
                 emergencyTimers, slog, qvars, pvars, rvars, lvars, wvars, dvars, xvars>>

\* lines 226-228: the exit(1) of an emergency shutdown
EmergencyExit ==
  /\ sphase \in {"shutdown", "done"}
  /\ EmergencyDue
  /\ sphase' = "exited"
  /\ exitCode' = "1"
  /\ UNCHANGED <<handlers, shutdownTimeoutMs, sorted, cur, hrunning, hstart, now, throwTimers,
                 emergencyTimers, slog, qvars, pvars, rvars, lvars, wvars, dvars, xvars>>

\* a tick passes while a handler is awaited and no timer is due
TickShutdown ==
  /\ sphase = "shutdown" /\ hrunning
  /\ now < HandlerDue
  /\ now < shutdownTimeoutMs
  /\ ~EmergencyDue
  /\ \A t \in throwTimers : now < t
  /\ now' = now + 1
  /\ UNCHANGED <<handlers, shutdownTimeoutMs, sphase, sorted, cur, hrunning, hstart, throwTimers,
                 emergencyTimers, exitCode, slog, qvars, pvars, rvars, lvars, wvars, dvars, xvars>>

---------------------------------------------------------------------------
(* The scrape processor: ScraperWorker.processScrapingJob                  *)
(* The catalog (store.app, store.reviews) and the database are the         *)
(* environment: each call either answers or throws.  Progress reports are  *)
(* taken to succeed.                                                       *)

MaxPages == 2

\* Math.min(maxPages, 10)
PageLimit == 10


\* Math.round(num / den) for num >= 0, den > 0
Round(num, den) == (2 * num + den) \div (2 * den)

\* countryCode.toUpperCase()
Upper(c) == IF c = "us" THEN "US" ELSE IF c = "gb" THEN "GB" ELSE c

RawReview(id, text) == [id |-> id, text |-> text]

\* what store.reviews may resolve to for one page
CatalogPages ==
  { <<>>,
    <<RawReview("r1", "t1")>>,
    <<RawReview("r1", "t2")>>,
    <<RawReview("r2", "t1")>>,
    <<RawReview("r1", "t1"), RawReview("r2", "t2")>>,
    <<RawReview("r1", "t1"), RawReview("r1", "t2")>> }

\* what store.app may resolve to: its title ("" is a missing title)
CatalogTitles == {"App", ""}

ScrapeJob(countries, sortMethods, pages) ==
  [countries |-> countries, sortMethods |-> sortMethods, pages |-> pages]

\* the job data tried: up to two countries and two sort methods, several pages for one
\* pair or for two pairs, one page for four pairs
ScrapeJobs ==
  { ScrapeJob(<<"us">>, <<"recent">>, p) : p \in 1..MaxPages }
    \cup { ScrapeJob(<<"us", "gb">>, <<"recent">>, p) : p \in 1..MaxPages }
    \cup { ScrapeJob(<<"us">>, <<"recent", "helpful">>, p) : p \in 1..MaxPages }
    \cup { ScrapeJob(<<"us", "gb">>, <<"recent", "helpful">>, 1) }

EmptyMap == [x \in {} |-> x]

StoredReview == [id |-> "r1", text |-> "t0", country |-> "US"]

NoResult == [success |-> FALSE, itemsProcessed |-> 0]

NoFirstRun == [table |-> EmptyMap, failed |-> {}, success |-> FALSE]

\* reviews.map(review => ({id, ..., text, country: countryCode.toUpperCase()}))
processedReviews(reviews, countryCode) ==
  [i \in 1..Len(reviews) |->
     [id |-> reviews[i].id, text |-> reviews[i].text, country |-> Upper(countryCode)]]

HasId(a, id) == \E k \in 1..Len(a) : a[k].id = id

\* a Map.set that keeps the entry already there
AccSetKeepFirst(a, r) == IF HasId(a, r.id) THEN a ELSE Append(a, r)

\* allReviews.set(review.id, review): a Map keeps insertion order, a set on a key
\* already there replaces the value in place
AccSet(a, r) ==
  IF HasId(a, r.id)
  THEN [k \in 1..Len(a) |-> IF a[k].id = r.id THEN r ELSE a[k]]
  ELSE Append(a, r)

RECURSIVE MergeReviews(_, _)
\* reviews.forEach(review => allReviews.set(review.id, review))
MergeReviews(a, rs) ==
  IF rs = <<>> THEN a ELSE MergeReviews(AccSet(a, Head(rs)), Tail(rs))

RECURSIVE ObserveAll(_, _)
\* history: the last observation of every reviewId, in the order the pages were fetched
ObserveAll(obs, rs) ==
  IF rs = <<>> THEN obs ELSE ObserveAll((Head(rs).id :> Head(rs)) @@ obs, Tail(rs))

RECURSIVE SupersededBy(_, _)
\* history: the reviewIds of which an earlier, different observation is replaced by rs
SupersededBy(obs, rs) ==
  IF rs = <<>> THEN {}
  ELSE LET r == Head(rs) IN
       (IF r.id \in DOMAIN obs /\ obs[r.id] # r THEN {r.id} ELSE {})
         \cup SupersededBy((r.id :> r) @@ obs, Tail(rs))

TotalCombinations == Len(pjob.sortMethods) * Len(pjob.countries)

\* a page loop without the safety limit
PagesToFetchUnlimited == pjob.pages

PagesToFetch == Min(pjob.pages, PageLimit)

\* a page loop that forgets its pages when a fetch throws
ReturnNothingOnError(pr) == <<>>

\* catch { break } and then return allReviews: the pages pushed before the throw
ReturnOnError(pr) == pr

\* only the first entry is handed to the save
ReviewsToSaveFirstOnly(a) == SubSeq(a, 1, Min(1, Len(a)))

\* Array.from(allReviews.values())
ReviewsToSave(a) == a

\* an upsert that, on a conflict, removes the row instead of updating it
UpsertDropsOnConflict(t, r) ==
  IF r.id \in DOMAIN t
  THEN [x \in DOMAIN t \ {r.id} |-> t[x]]
  ELSE (r.id :> r) @@ t

\* INSERT ... ON CONFLICT (id) DO UPDATE SET score, title, text, helpful_votes
Upsert(t, r) ==
  IF r.id \in DOMAIN t
  THEN [t EXCEPT ![r.id].text = r.text]
  ELSE (r.id :> r) @@ t

\* updateProgress(10); getAppInfo; updateProgress(20)
ResolveApp(threw, title) ==
  /\ ppc = "start"
  /\ appInfo' = [title |-> IF threw \/ title = "" THEN "Unknown App" ELSE title]
  /\ progress' = progress \o <<10, 20>>
  /\ ppc' = "ensure"
  /\ UNCHANGED <<pjob, apps, si, ci, pageNum, pairReviews, acc, completed, reviewsTable,
                 savedCount, saveIdx, result, observed, superseded, requested, fetchErrors,
                 failedIds, qvars, svars, rvars, lvars, wvars, dvars, xvars>>

\* ensureAppInDatabase; updateProgress(30).  A database error is rethrown and caught by
\* the outer catch of processScrapingJob, which returns success: false
EnsureApp(dbOk) ==
  /\ ppc = "ensure"
  /\ IF dbOk
     THEN /\ apps' = IF Len(apps) = 0 THEN <<appInfo>> ELSE apps
          /\ progress' = Append(progress, 30)
          /\ ppc' = "fetch"
          /\ UNCHANGED result
     ELSE /\ result' = [success |-> FALSE, itemsProcessed |-> 0]
          /\ ppc' = "done"
          /\ UNCHANGED <<apps, progress>>
  /\ UNCHANGED <<pjob, appInfo, si, ci, pageNum, pairReviews, acc, completed, reviewsTable,
                 savedCount, saveIdx, observed, superseded, requested, fetchErrors,
                 failedIds, qvars, svars, rvars, lvars, wvars, dvars, xvars>>

\* fetchReviewsForCountry returns pr: merge, report progress, go to the next pair
EndPair(pr) ==
  /\ acc' = MergeReviews(acc, pr)
  /\ completed' = completed + 1
  /\ progress' = Append(progress, 30 + Round((completed + 1) * 60, TotalCombinations))
  /\ pairReviews' = <<>>
  /\ pageNum' = 1
  /\ IF ci < Len(pjob.countries)
     THEN si' = si /\ ci' = ci + 1 /\ ppc' = "fetch"
     ELSE IF si < Len(pjob.sortMethods)
          THEN si' = si + 1 /\ ci' = 1 /\ ppc' = "fetch"
          ELSE UNCHANGED <<si, ci>> /\ ppc' = "save"

\* one turn of the page loop of fetchReviewsForCountry
FetchPage(threw, reviews) ==
  /\ ppc = "fetch"
  /\ requested' = requested \cup {<<si, ci, pageNum>>}
  /\ IF threw
     THEN /\ EndPair(ReturnOnError(pairReviews))
          /\ fetchErrors' = fetchErrors \cup {<<si, ci, pageNum>>}
          /\ UNCHANGED <<observed, superseded>>
     ELSE IF Len(reviews) = 0
     THEN /\ EndPair(pairReviews)
          /\ UNCHANGED <<fetchErrors, observed, superseded>>
     ELSE LET page == processedReviews(reviews, pjob.countries[ci])
              pr == pairReviews \o page
          IN /\ observed' = ObserveAll(observed, page)
             /\ superseded' = superseded \cup SupersededBy(observed, page)
             /\ UNCHANGED fetchErrors
             /\ IF pageNum < PagesToFetch
                THEN /\ pageNum' = pageNum + 1
                     /\ pairReviews' = pr
                     /\ UNCHANGED <<acc, completed, progress, si, ci, ppc>>
                ELSE EndPair(pr)
  /\ emptyPages' = IF ~threw /\ Len(reviews) = 0
                   THEN emptyPages \cup {<<si, ci, pageNum>>}
                   ELSE emptyPages
  /\ UNCHANGED <<pjob, appInfo, apps, reviewsTable, savedCount, saveIdx, result, failedIds,
                 catalog, run, firstRun, qvars, svars, lvars, wvars, dvars, xvars>>

\* a row loop that gives up the rows after a failed one
SkipRowsOnFailure(idx, ok, len) == IF ok THEN idx + 1 ELSE len + 1

\* for (const row of batch) { try { query } catch { log } }: the row after row idx of len
NextRow(idx, ok, len) == idx + 1

\* saveReviewsToDatabase, one row: a failed query is logged and the loop goes on
SaveRow(ok) ==
  /\ ppc = "save"
  /\ saveIdx <= Len(ReviewsToSave(acc))
  /\ LET r == ReviewsToSave(acc)[saveIdx] IN
       IF ok
       THEN /\ reviewsTable' = Upsert(reviewsTable, r)
            /\ savedCount' = savedCount + 1
            /\ UNCHANGED failedIds
       ELSE /\ failedIds' = failedIds \cup {r.id}
            /\ UNCHANGED <<reviewsTable, savedCount>>
  /\ saveIdx' = NextRow(saveIdx, ok, Len(ReviewsToSave(acc)))
  /\ progress' = IF saveIdx = Len(ReviewsToSave(acc)) THEN Append(progress, 95) ELSE progress
  /\ UNCHANGED <<pjob, ppc, appInfo, apps, si, ci, pageNum, pairReviews, acc, completed,
                 result, observed, superseded, requested, fetchErrors, qvars, svars, rvars, lvars, wvars, dvars, xvars>>

\* updateProgress(100); return {success: true, ...}
Finish ==
  /\ ppc = "save"
  /\ saveIdx > Len(ReviewsToSave(acc))
  /\ progress' = Append(progress, 100)
  /\ result' = [success |-> TRUE,
                reviewsScraped |-> Len(ReviewsToSave(acc)),
                itemsProcessed |-> Len(ReviewsToSave(acc))]
  /\ ppc' = "done"
  /\ UNCHANGED <<pjob, appInfo, apps, si, ci, pageNum, pairReviews, acc, completed,
                 reviewsTable, savedCount, saveIdx, observed, superseded, requested,
                 fetchErrors, failedIds, qvars, svars, rvars, lvars, wvars, dvars, xvars>>

---------------------------------------------------------------------------
(* The label processor: LabelerWorker.processLabelingJob and ReviewLabeler   *)
(* The LLM and the database are the environment.  A JSON value of a response *)
(* is a record of its kind and its content: n for a number (a confidence in  *)
(* hundredths), s for a short string, q for the characters of a long string  *)
(* (of the one string of an array, kind "arr").                              *)

MaxReviews == 2

Max(a, b) == IF a >= b THEN a ELSE b

TaxonomyThemes ==
  {"UI/UX Design", "Performance", "Features", "Bugs/Errors", "Authentication",
   "Data/Sync", "Pricing", "Customer Support", "General Feedback"}

Sentiments == {"positive", "neutral", "negative"}

\* .slice(0, 100)
QuoteLimit == 100

\* batchSize || 20
DefaultBatchSize == 20

DefaultModel == "gpt-4o-mini"

Absent == [k |-> "absent", n |-> 0, s |-> "", q |-> <<>>]
Num(n) == [k |-> "num", n |-> n, s |-> "", q |-> <<>>]
Str(str) == [k |-> "str", n |-> 0, s |-> str, q |-> <<>>]
Bool(b) == [k |-> "bool", n |-> IF b THEN 1 ELSE 0, s |-> "", q |-> <<>>]
Text(len) == [k |-> "text", n |-> 0, s |-> "", q |-> [i \in 1..len |-> 1]]
TextArray(len) == [k |-> "arr", n |-> 0, s |-> "", q |-> [i \in 1..len |-> 1]]

\* the values JavaScript takes for false in v || d and Boolean(v)
Falsy(v) ==
  \/ v.k = "absent"
  \/ v.k = "num" /\ v.n = 0
  \/ v.k = "bool" /\ v.n = 0
  \/ v.k = "str" /\ v.s = ""
  \/ v.k = "text" /\ v.q = <<>>

\* parseInt(v), parseFloat(v): the number, or <<>> for NaN
ParseNumber(v) == IF v.k = "num" THEN <<v.n>> ELSE <<>>

\* parsed || d
OrDefault(parsed, d) == IF parsed = <<>> \/ parsed[1] = 0 THEN d ELSE parsed[1]

\* Math.max(lo, Math.min(hi, x))
Clamp(lo, hi, x) == Max(lo, Min(hi, x))

\* (v || '').slice(0, 100): a prefix of a string, the first 100 elements of an array
Slice(v) ==
  IF Falsy(v) THEN Text(0)
  ELSE IF v.k = "text" THEN [v EXCEPT !.q = SubSeq(v.q, 1, Min(Len(v.q), QuoteLimit))]
  ELSE v

\* one element of the array the LLM returned (null is an element that is no object)
RawItem(reviewId, theme, sentiment, severity, featureRequest, directQuote, confidence) ==
  [null |-> FALSE, reviewId |-> reviewId, theme |-> theme, sentiment |-> sentiment,
   severity |-> severity, featureRequest |-> featureRequest,
   directQuote |-> directQuote, confidence |-> confidence]

NullItem == [RawItem(Absent, Absent, Absent, Absent, Absent, Absent, Absent)
               EXCEPT !.null = TRUE]

\* a property read on null, or slice called on a number or a boolean, is a TypeError
ItemThrows(item) ==
  \/ item.null
  \/ ~Falsy(item.directQuote) /\ item.directQuote.k \notin {"text", "arr"}

\* labelBatch, lines 190-200: one element of resultsArray.map
sanitize(item, model) ==
  [reviewId |-> IF Falsy(item.reviewId) THEN "" ELSE item.reviewId.s,
   theme |-> IF Falsy(item.theme) THEN "General Feedback" ELSE item.theme.s,
   sentiment |-> IF item.sentiment.k = "str" /\ item.sentiment.s \in Sentiments
                 THEN item.sentiment.s ELSE "neutral",
   severity |-> Clamp(1, 5, OrDefault(ParseNumber(item.severity), 1)),
   featureRequest |-> ~Falsy(item.featureRequest),
   directQuote |-> Slice(item.directQuote),
   confidence |-> Clamp(0, 100, OrDefault(ParseNumber(item.confidence), 50)),
   modelVersion |-> model]

\* labelReviews, lines 99-110: the label of a review whose batch failed
DefaultLabel(review, model) ==
  [reviewId |-> review.id, theme |-> "General Feedback", sentiment |-> "neutral",
   severity |-> 1, featureRequest |-> FALSE, directQuote |-> Text(0),
   confidence |-> 0, modelVersion |-> model]

\* a label written as the JSON element the LLM is asked for
AsRawItem(label) ==
  RawItem(Str(label.reviewId), Str(label.theme), Str(label.sentiment),
          Num(label.severity), Bool(label.featureRequest), label.directQuote,
          Num(label.confidence))

LlmResponse(kind, items) == [kind |-> kind, items |-> items]

\* a labelBatch that throws only when the call to the LLM fails
labelBatchThrowsOnApiError(resp) == resp.kind = "apiError"

\* labelBatch, lines 157-187, and the map of lines 190-200
labelBatchThrows(resp) ==
  \/ resp.kind \in {"apiError", "noContent", "invalidJson", "noArray"}
  \/ \E i \in 1..Len(resp.items) : ItemThrows(resp.items[i])

labelBatch(resp, model) ==
  [i \in 1..Len(resp.items) |-> sanitize(resp.items[i], model)]

\* the elements the LLM is taken to answer with for one review
ItemKinds == {"good", "dirty", "low", "bare", "arrayQuote", "numberQuote", "wrongId"}

ItemFor(kind, review) ==
  CASE kind = "good" ->
         RawItem(Str(review.id), Str("Performance"), Str("negative"), Num(4),
                 Bool(TRUE), Text(20), Num(90))
    [] kind = "dirty" ->
         RawItem(Str(review.id), Str("Off Taxonomy"), Str("angry"), Num(9),
                 Str("yes"), Text(2 * QuoteLimit), Num(150))
    [] kind = "low" ->
         RawItem(Str(review.id), Str(""), Absent, Num(0), Absent, Absent, Num(-30))
    [] kind = "bare" ->
         RawItem(Absent, Absent, Absent, Absent, Absent, Absent, Absent)
    [] kind = "arrayQuote" ->
         RawItem(Str(review.id), Str("Pricing"), Str("positive"), Num(1),
                 Bool(FALSE), TextArray(2 * QuoteLimit), Num(100))
    [] kind = "numberQuote" ->
         RawItem(Str(review.id), Str("Pricing"), Str("positive"), Num(1),
                 Bool(FALSE), Num(7), Num(100))
    [] OTHER ->
         RawItem(Str("zz"), Str("Features"), Str("neutral"), Num(2),
                 Bool(FALSE), Text(QuoteLimit), Num(50))

ItemsFor(kind, batch) == [i \in 1..Len(batch) |-> ItemFor(kind, batch[i])]

\* what the LLM may answer for one batch: a failed call, no content, content that is no
\* JSON, an object without a results array, an array (bare or under the key results) with
\* one element per review, with one element fewer, with one more, or with a null
LlmResponses(batch) ==
  { LlmResponse(kind, <<>>) : kind \in {"apiError", "noContent", "invalidJson", "noArray"} }
    \cup { LlmResponse("array", ItemsFor(kind, batch)) : kind \in ItemKinds }
    \cup { LlmResponse("resultsKey", ItemsFor("good", batch)),
           LlmResponse("array", Tail(ItemsFor("good", batch))),
           LlmResponse("array", Append(ItemsFor("good", batch), ItemFor("good", batch[1]))),
           LlmResponse("array", <<NullItem>>) }

LabelJob(reviewIds, batchSize) ==
  [reviewIds |-> reviewIds, batchSize |-> batchSize, model |-> DefaultModel]

ReviewIdLists == { [i \in 1..n |-> IF i = 1 THEN "r1" ELSE IF i = 2 THEN "r2" ELSE "r3"] :
                     n \in 1..MaxReviews }

\* job data: batchSize 0 stands for a batchSize that is not given
LabelJobs == { LabelJob(ids, b) : ids \in ReviewIdLists, b \in {0, 1, 2} }

BatchSize == IF ljob.batchSize = 0 THEN DefaultBatchSize ELSE ljob.batchSize

\* reviews.slice(i, i + batchSize), with bstart = i + 1
Batch == SubSeq(lreviews, bstart, Min(bstart + BatchSize - 1, Len(lreviews)))

\* updateProgress(10); fetchReviewsByIds; updateProgress(20).  A database error and an
\* empty result both end in the catch of processLabelingJob
FetchReviews(dbOk, found) ==
  /\ lpc = "start"
  /\ IF dbOk /\ Len(found) > 0
     THEN /\ lreviews' = [i \in 1..Len(found) |-> [id |-> found[i]]]
          /\ lprogress' = lprogress \o <<10, 20>>
          /\ lpc' = "label"
          /\ UNCHANGED lresult
     ELSE /\ lresult' = [success |-> FALSE, itemsProcessed |-> 0]
          /\ lprogress' = Append(lprogress, 10)
          /\ lpc' = "done"
          /\ UNCHANGED lreviews
  /\ UNCHANGED <<ljob, bstart, results, fallbackAt, labelsTable, lsaveIdx, lsavedCount,
                 lfailedRows, llmKinds, qvars, svars, pvars, rvars, wvars, dvars, xvars>>

\* labelReviews: one turn of the batch loop; after the last batch updateProgress(80)
LabelBatchStep(resp) ==
  /\ lpc = "label"
  /\ IF labelBatchThrows(resp)
     THEN /\ results' = results \o [i \in 1..Len(Batch) |-> DefaultLabel(Batch[i], ljob.model)]
          /\ fallbackAt' = fallbackAt \cup {bstart}
     ELSE /\ results' = results \o labelBatch(resp, ljob.model)
          /\ UNCHANGED fallbackAt
  /\ llmKinds' = Append(llmKinds, resp.kind)
  /\ bstart' = bstart + BatchSize
  /\ IF bstart + BatchSize > Len(lreviews)
     THEN lpc' = "save" /\ lprogress' = Append(lprogress, 80)
     ELSE UNCHANGED <<lpc, lprogress>>
  /\ UNCHANGED <<ljob, lreviews, labelsTable, lsaveIdx, lsavedCount, lfailedRows, lresult,
                 qvars, svars, pvars, rvars, wvars, dvars, xvars>>

\* INSERT INTO labels ... ON CONFLICT (review_id) DO UPDATE of every field
UpsertLabel(t, label) == (label.reviewId :> label) @@ t

\* saveLabelResults, one row: a failed query is logged and the loop goes on
SaveLabelRow(ok) ==
  /\ lpc = "save"
  /\ lsaveIdx <= Len(results)
  /\ IF ok
     THEN /\ labelsTable' = UpsertLabel(labelsTable, results[lsaveIdx])
          /\ lsavedCount' = lsavedCount + 1
          /\ UNCHANGED lfailedRows
     ELSE /\ lfailedRows' = lfailedRows \cup {lsaveIdx}
          /\ UNCHANGED <<labelsTable, lsavedCount>>
  /\ lsaveIdx' = NextRow(lsaveIdx, ok, Len(results))
  /\ UNCHANGED <<ljob, lpc, lreviews, bstart, results, fallbackAt, lresult, lprogress,
                 llmKinds, qvars, svars, pvars, rvars, wvars, dvars, xvars>>

\* updateProgress(95); updateProgress(100); return {success: true, ...}
FinishLabel ==
  /\ lpc = "save"
  /\ lsaveIdx > Len(results)
  /\ lprogress' = lprogress \o <<95, 100>>
  /\ lresult' = [success |-> TRUE, itemsProcessed |-> Len(results)]
  /\ lpc' = "done"
  /\ UNCHANGED <<ljob, lreviews, bstart, results, fallbackAt, labelsTable, lsaveIdx,
                 lsavedCount, lfailedRows, llmKinds, qvars, svars, pvars, rvars, wvars, dvars, xvars>>

---------------------------------------------------------------------------
(* The same scrape job run twice against a catalog whose answers are fixed *)

CatalogAnswer(threw, reviews) == [threw |-> threw, reviews |-> reviews]

\* the answers of a fixed catalog to one request
CatalogAnswers ==
  { CatalogAnswer(TRUE, <<>>),
    CatalogAnswer(FALSE, <<>>),
    CatalogAnswer(FALSE, <<RawReview("r1", "t2")>>),
    CatalogAnswer(FALSE, <<RawReview("r1", "t1"), RawReview("r2", "t2")>>) }

\* the job that is run twice: two pairs, MaxPages pages each
RerunJob == ScrapeJob(<<"us", "gb">>, <<"recent">>, MaxPages)

RerunRequests == {"recent"} \X {"us", "gb"} \X (1..MaxPages)

\* one turn of the page loop, answered by the fixed catalog
FetchCatalogPage ==
  /\ catalog # EmptyMap
  /\ ppc = "fetch"
  /\ LET answer == catalog[<<pjob.sortMethods[si], pjob.countries[ci], pageNum>>]
     IN FetchPage(answer.threw, answer.reviews)

\* the job has returned and the same job is handed to the worker again
Rerun ==
  /\ ppc = "done"
  /\ run = 1
  /\ run' = 2
  /\ firstRun' = [table |-> reviewsTable, failed |-> failedIds, success |-> result.success]
  /\ ppc' = "start"
  /\ appInfo' = [title |-> "Unknown App"]
  /\ si' = 1 /\ ci' = 1 /\ pageNum' = 1
  /\ pairReviews' = <<>> /\ acc' = <<>>
  /\ completed' = 0 /\ progress' = <<>>
  /\ savedCount' = 0 /\ saveIdx' = 1
  /\ result' = NoResult
  /\ observed' = EmptyMap /\ superseded' = {} /\ requested' = {}
  /\ fetchErrors' = {} /\ failedIds' = {} /\ emptyPages' = {}
  /\ UNCHANGED <<pjob, apps, reviewsTable, catalog, qvars, svars, lvars, wvars, dvars, xvars>>

---------------------------------------------------------------------------
(* The broker's worker with the limiter the repository configures.  The     *)
(* limiter is the broker's: a counter per queue that is created with the     *)
(* configured duration as its time to live by the first job started, counts  *)
(* every job started while it lives, and lets no job start once it has       *)
(* reached max.  One tick is 30000 ms.                                       *)

MaxTicks == 3

\* ScraperWorker.getWorkerConfig and LabelerWorker.getWorkerConfig
getWorkerConfig(kind, env) ==
  IF kind = "scrape_reviews"
  THEN [concurrency |-> IF env = "production" THEN 3 ELSE 1,
        limiter |-> [max |-> 10, duration |-> 60000]]
  ELSE [concurrency |-> IF env = "production" THEN 2 ELSE 1,
        limiter |-> [max |-> 5, duration |-> 60000]]

WorkerOpts == getWorkerConfig(wkind, wenv)

DurationTicks == WorkerOpts.limiter.duration \div 30000

\* the limiter's counter, which is gone once its time to live has passed
LimiterCount == IF limExpiry # 0 /\ wnow < limExpiry THEN limCount ELSE 0

\* the worker takes a waiting job: a free slot, and the limiter below max
StartJob ==
  /\ wactive < WorkerOpts.concurrency
  /\ LimiterCount < WorkerOpts.limiter.max
  /\ limCount' = LimiterCount + 1
  /\ limExpiry' = IF LimiterCount = 0 THEN wnow + DurationTicks ELSE limExpiry
  /\ wactive' = wactive + 1
  /\ wstarts' = [wstarts EXCEPT ![wnow] = @ + 1]
  /\ UNCHANGED <<wkind, wenv, wnow, qvars, svars, pvars, rvars, lvars, dvars, xvars>>

\* the processor of a job in progress returns
JobReturns ==
  /\ wactive > 0
  /\ wactive' = wactive - 1
  /\ UNCHANGED <<wkind, wenv, wnow, limCount, limExpiry, wstarts, qvars, svars, pvars,
                 rvars, lvars, dvars, xvars>>

TickWorker ==
  /\ wnow < MaxTicks
  /\ wnow' = wnow + 1
  /\ UNCHANGED <<wkind, wenv, wactive, limCount, limExpiry, wstarts, qvars, svars, pvars,
                 rvars, lvars, dvars, xvars>>

WorkerStart(kind, env) ==
  /\ wkind = kind
  /\ wenv = env
  /\ wnow = 0
  /\ wactive = 0
  /\ limCount = 0
  /\ limExpiry = 0
  /\ wstarts = [t \in 0..MaxTicks |-> 0]

InitWorkerIdle == WorkerStart("scrape_reviews", "development")

---------------------------------------------------------------------------
(* Health monitor: shared/src/health/checker.ts.  The checks are the       *)
(* environment: a check answers with a status, throws, or does not answer  *)
(* before its timeout.                                                     *)

\* the variables of the other components
ovars == <<qvars, svars, pvars, rvars, lvars, wvars, dvars>>

Checker(name, critical) == [name |-> name, critical |-> critical]

\* registerDefaultChecks
DefaultCheckers ==
  {Checker("database", TRUE), Checker("memory", FALSE), Checker("eventloop", FALSE)}

HealthStatuses == {"healthy", "degraded", "unhealthy"}

\* how a check settles: the status it resolves to, a rejection, or its timeout
CheckOutcomes == HealthStatuses \cup {"threw", "timeout"}

\* this.checkers.set(checker.name, checker); options.critical is absent (<<>>) or given
addHealthChecker(name, critical) ==
  /\ hpc = "idle"
  /\ checkers' = {c \in checkers : c.name # name} \cup {Checker(name, Opt(critical, FALSE))}
  /\ UNCHANGED <<hpc, pendingChecks, dependencies, overallStatus, lastHealthCheck, ovars,
                 cvars, ivars, gvars>>

\* checkHealth, lines 162-168: overallStatus = 'healthy' and every check is started
checkHealth ==
  /\ hpc = "idle"
  /\ hpc' = "checking"
  /\ pendingChecks' = {c.name : c \in checkers}
  /\ dependencies' = EmptyMap
  /\ overallStatus' = "healthy"
  /\ UNCHANGED <<checkers, lastHealthCheck, ovars, cvars, ivars, gvars>>

\* an update in which a degraded check overrides an unhealthy one
StatusAfterResultLastWins(overall, critical, status) ==
  IF critical /\ status = "unhealthy" THEN "unhealthy"
  ELSE IF status = "degraded" THEN "degraded"
  ELSE overall

\* lines 177-181: the overall status after a check resolved with a status
StatusAfterResult(overall, critical, status) ==
  IF critical /\ status = "unhealthy" THEN "unhealthy"
  ELSE IF status = "degraded" /\ overall = "healthy" THEN "degraded"
  ELSE overall

\* lines 193-195: the overall status after a check threw or timed out
StatusAfterFailure(overall, critical) == IF critical THEN "unhealthy" ELSE overall

\* one check settles: the race of lines 174-175 and the try or the catch after it
CheckSettles(name, outcome) ==
  /\ hpc = "checking"
  /\ name \in pendingChecks
  /\ LET c == CHOOSE x \in checkers : x.name = name IN
       IF outcome \in HealthStatuses
       THEN /\ overallStatus' = StatusAfterResult(overallStatus, c.critical, outcome)
            /\ dependencies' = (name :> outcome) @@ dependencies
       ELSE /\ overallStatus' = StatusAfterFailure(overallStatus, c.critical)
            /\ dependencies' = (name :> "unhealthy") @@ dependencies
  /\ pendingChecks' = pendingChecks \ {name}
  /\ UNCHANGED <<checkers, hpc, lastHealthCheck, ovars, cvars, ivars, gvars>>

\* lines 203-231: Promise.all has resolved; the health is stored and returned
CheckHealthReturns ==
  /\ hpc = "checking"
  /\ pendingChecks = {}
  /\ hpc' = "returned"
  /\ lastHealthCheck' = overallStatus
  /\ UNCHANGED <<checkers, pendingChecks, dependencies, overallStatus, ovars, cvars, ivars, gvars>>

\* the caller of checkHealth has its answer
CheckHealthDone ==
  /\ hpc = "returned"
  /\ hpc' = "idle"
  /\ UNCHANGED <<checkers, pendingChecks, dependencies, overallStatus, lastHealthCheck,
                 ovars, cvars, ivars, gvars>>

---------------------------------------------------------------------------
(* ScraperService.shutdown (scraper/src/scraper.ts) and its LABEL twin      *)
(* (labeler/src/service.ts), called by the signal handlers of index.ts      *)

\* process.on('SIGINT', shutdown); process.on('SIGTERM', shutdown)
Callers == {"SIGINT", "SIGTERM"}

ServiceKind == "scrape_reviews"

\* shutdown(), lines 404-415: the guard on isRunning, then queueWorker.shutdown(), which
\* returns at once when the worker is already shutting down and else awaits worker.close()
ServiceShutdown(c) ==
  /\ svc[c] = "idle"
  /\ IF ~isRunning
     THEN svc' = [svc EXCEPT ![c] = "resolved"] /\ UNCHANGED worker
     ELSE IF worker[ServiceKind].isShuttingDown
     THEN svc' = [svc EXCEPT ![c] = "factory"] /\ UNCHANGED worker
     ELSE /\ svc' = [svc EXCEPT ![c] = "worker"]
          /\ worker' = [worker EXCEPT ![ServiceKind].isShuttingDown = TRUE]
  /\ UNCHANGED <<jobs, dlq, dlqSeq, replay, addOutcome, isRunning, queuesState, connState,
                 svars, pvars, rvars, lvars, wvars, dvars, cvars, hvars, gvars>>

\* queueWorker.shutdown() has resolved (the worker is closed) or has rethrown what
\* worker.close() threw; a rejection is rethrown by the catch of lines 429-432
WorkerShutdownSettles(c, ok) ==
  /\ svc[c] = "worker"
  /\ IF ok
     THEN worker[ServiceKind].closed /\ svc' = [svc EXCEPT ![c] = "factory"]
     ELSE svc' = [svc EXCEPT ![c] = "rejected"]
  /\ UNCHANGED <<qvars, isRunning, queuesState, connState, svars, pvars, rvars, lvars,
                 wvars, dvars, cvars, hvars, gvars>>

\* QueueFactory.close(): Promise.allSettled over queue.close(), then this.queues.clear();
\* it resolves whether or not a close rejected
FactoryClose(c, closed) ==
  /\ svc[c] = "factory"
  /\ queuesState' = IF queuesState = "open"
                    THEN (IF closed THEN "closed" ELSE "closeFailed")
                    ELSE queuesState
  /\ svc' = [svc EXCEPT ![c] = "connection"]
  /\ UNCHANGED <<qvars, isRunning, connState, svars, pvars, rvars, lvars, wvars, dvars,
                 cvars, hvars, gvars>>

\* connection.close(), then isRunning = false: redis.quit() resolves, or it rejects, the
\* client is disconnected and the error rethrown; with no client it returns at once
ConnectionClose(c, ok) ==
  /\ svc[c] = "connection"
  /\ IF connState # "open"
     THEN /\ isRunning' = FALSE
          /\ svc' = [svc EXCEPT ![c] = "resolved"]
          /\ UNCHANGED connState
     ELSE IF ok
     THEN /\ connState' = "closed"
          /\ isRunning' = FALSE
          /\ svc' = [svc EXCEPT ![c] = "resolved"]
     ELSE /\ connState' = "disconnected"
          /\ svc' = [svc EXCEPT ![c] = "rejected"]
          /\ UNCHANGED isRunning
  /\ UNCHANGED <<qvars, queuesState, svars, pvars, rvars, lvars, wvars, dvars, cvars,
                 hvars, gvars>>

---------------------------------------------------------------------------
(* QueueFactory.getQueue (shared/src/queue/factory.ts) *)

MaxQueueObjects == 3

FacadeCallers == {"a", "b"}

NoQueue == 0

IdleCall == [pc |-> "idle", kind |-> "none", got |-> NoQueue]

\* lines 23-28: a queue of the map is returned; with none, the call awaits
\* connection.getConnection() before it makes one
getQueue(c, jobType) ==
  /\ getQueuePc[c].pc # "connection"
  /\ Len(created) + Cardinality({d \in FacadeCallers : getQueuePc[d].pc = "connection"})
        < MaxQueueObjects
  /\ IF queues[jobType] # NoQueue
     THEN getQueuePc' = [getQueuePc EXCEPT
                           ![c] = [pc |-> "returned", kind |-> jobType, got |-> queues[jobType]]]
     ELSE getQueuePc' = [getQueuePc EXCEPT
                           ![c] = [pc |-> "connection", kind |-> jobType, got |-> NoQueue]]
  /\ UNCHANGED <<queues, created, nvars, ovars, cvars, hvars, ivars, uvars, evars>>

\* lines 28-75: getConnection() has settled; the call makes a Queue, sets it in the map
\* and returns it, or throws what getConnection() threw
getQueueResumes(c, connected) ==
  /\ getQueuePc[c].pc = "connection"
  /\ IF connected
     THEN /\ created' = Append(created, getQueuePc[c].kind)
          /\ queues' = [queues EXCEPT ![getQueuePc[c].kind] = Len(created) + 1]
          /\ getQueuePc' = [getQueuePc EXCEPT ![c].pc = "returned",
                                              ![c].got = Len(created) + 1]
     ELSE /\ getQueuePc' = [getQueuePc EXCEPT ![c].pc = "threw"]
          /\ UNCHANGED <<queues, created>>
  /\ UNCHANGED <<nvars, ovars, cvars, hvars, ivars, uvars, evars>>

---------------------------------------------------------------------------
(* QueueConnection (shared/src/queue/connection.ts) over the ioredis client *)

MaxClients == 3

ConnCallers == {"a", "b"}

NoClient == 0

IdleConnect == [pc |-> "idle", promise |-> NoClient, got |-> NoClient]

\* the clients that have not been quit or disconnected
LiveClients == {i \in 1..Len(clients) : clients[i].status # "end"}

InFlight == {c \in ConnCallers : connectPc[c].pc \in {"creating", "joined"}}

\* constructor: the configuration is parsed; lazyConnect defaults to true (types.ts:138)
NewQueueConnection(lazy) ==
  /\ lazyConnect = "unset"
  /\ lazyConnect' = IF lazy THEN "true" ELSE "false"
  /\ UNCHANGED <<redis, clients, isConnecting, connectionPromise, connectPc, fvars,
                 ovars, cvars, hvars, ivars, uvars, evars>>

\* connect(), lines 59-69, with createConnection up to its first await: a ready client is
\* returned; a creation in progress is joined; else `new IORedis` makes a client, which
\* with lazyConnect waits for the first command before it connects
ConnectCall(c) ==
  IF redis # NoClient /\ clients[redis].status = "ready"
  THEN /\ connectPc' = [connectPc EXCEPT
                          ![c] = [pc |-> "returned", promise |-> NoClient, got |-> redis]]
       /\ UNCHANGED <<redis, clients, isConnecting, connectionPromise>>
  ELSE IF isConnecting /\ connectionPromise # NoClient
  THEN /\ connectPc' = [connectPc EXCEPT
                          ![c] = [pc |-> "joined", promise |-> connectionPromise,
                                  got |-> NoClient]]
       /\ UNCHANGED <<redis, clients, isConnecting, connectionPromise>>
  ELSE /\ Len(clients) < MaxClients
       /\ isConnecting' = TRUE
       /\ clients' = Append(clients,
                            [status |-> IF lazyConnect = "true" THEN "wait" ELSE "connecting",
                             promise |-> "pending"])
       /\ connectionPromise' = Len(clients) + 1
       /\ connectPc' = [connectPc EXCEPT
                          ![c] = [pc |-> "creating", promise |-> Len(clients) + 1,
                                  got |-> NoClient]]
       /\ UNCHANGED redis

connect(c) ==
  /\ lazyConnect # "unset"
  /\ c \notin InFlight
  /\ ConnectCall(c)
  /\ UNCHANGED <<lazyConnect, fvars, ovars, cvars, hvars, ivars, uvars, evars>>

\* getConnection(), lines 145-150
getConnection(c) ==
  /\ lazyConnect # "unset"
  /\ c \notin InFlight
  /\ IF redis = NoClient \/ clients[redis].status # "ready"
     THEN ConnectCall(c)
     ELSE /\ connectPc' = [connectPc EXCEPT
                             ![c] = [pc |-> "returned", promise |-> NoClient, got |-> redis]]
          /\ UNCHANGED <<redis, clients, isConnecting, connectionPromise>>
  /\ UNCHANGED <<lazyConnect, fvars, ovars, cvars, hvars, ivars, uvars, evars>>

\* connect(), lines 71-79, after createConnection settled (lines 127-139): with
\* lazyConnect nothing is awaited; without it the ping answers, or fails and the client
\* is quit
connectResumes(c, pong) ==
  /\ connectPc[c].pc = "creating"
  /\ lazyConnect = "true" => pong
  /\ LET p == connectPc[c].promise IN
     IF pong
     THEN /\ redis' = p
          /\ isConnecting' = FALSE
          /\ clients' = [clients EXCEPT
                           ![p].promise = "resolved",
                           ![p].status = IF lazyConnect = "true" THEN @ ELSE "ready"]
          /\ connectPc' = [connectPc EXCEPT ![c].pc = "returned", ![c].got = p]
          /\ UNCHANGED connectionPromise
     ELSE /\ isConnecting' = FALSE
          /\ connectionPromise' = NoClient
          /\ clients' = [clients EXCEPT ![p].promise = "rejected", ![p].status = "end"]
          /\ connectPc' = [connectPc EXCEPT ![c].pc = "threw"]
          /\ UNCHANGED redis
  /\ UNCHANGED <<lazyConnect, fvars, ovars, cvars, hvars, ivars, uvars, evars>>

\* the promise returned at line 65 has settled
joinedSettles(c) ==
  /\ connectPc[c].pc = "joined"
  /\ clients[connectPc[c].promise].promise # "pending"
  /\ connectPc' = [connectPc EXCEPT
                     ![c].pc = IF clients[connectPc[c].promise].promise = "resolved"
                               THEN "returned" ELSE "threw",
                     ![c].got = IF clients[connectPc[c].promise].promise = "resolved"
                                THEN connectPc[c].promise ELSE NoClient]
  /\ UNCHANGED <<lazyConnect, redis, clients, isConnecting, connectionPromise, fvars,
                 ovars, cvars, hvars, ivars, uvars, evars>>

\* ioredis: a lazy client connects with its first command; a ready client that loses its
\* socket reconnects
ClientStatus(i) ==
  /\ i \in LiveClients
  /\ clients[i].promise = "resolved"
  /\ clients' = [clients EXCEPT
                   ![i].status = CASE @ = "wait" -> "ready"
                                   [] @ = "ready" -> "reconnecting"
                                   [] OTHER -> "ready"]
  /\ UNCHANGED <<lazyConnect, redis, isConnecting, connectionPromise, connectPc, fvars,
                 ovars, cvars, hvars, ivars, uvars, evars>>

\* close(), lines 209-229, called with no connect in progress: with no client it returns;
\* else the client is quit, or disconnected when quit() rejects
closeConnection(quit) ==
  /\ lazyConnect # "unset"
  /\ InFlight = {}
  /\ IF redis = NoClient
     THEN UNCHANGED <<redis, clients, connectionPromise>>
     ELSE /\ clients' = [clients EXCEPT ![redis].status = "end"]
          /\ redis' = NoClient
          /\ connectionPromise' = IF quit THEN NoClient ELSE connectionPromise
  /\ connectPc' = [c \in ConnCallers |-> IdleConnect]
  /\ UNCHANGED <<lazyConnect, isConnecting, fvars, ovars, cvars, hvars, ivars, uvars, evars>>

---------------------------------------------------------------------------
(* The module-level instances: globalPool (database/pool.ts), globalConnection       *)
(* (queue/connection.ts), globalFactory (queue/factory.ts) and globalHealthMonitor   *)
(* (health/checker.ts)                                                               *)

MaxInstances == 2

Singletons == {"databasePool", "queueConnection", "queueFactory", "healthMonitor"}

NoInstance == 0

NoCall == [op |-> "none", singleton |-> "none", existed |-> FALSE, outcome |-> "none"]

Call(op, s, outcome) ==
  [op |-> op, singleton |-> s, existed |-> globalInstance[s] # NoInstance,
   outcome |-> outcome]

\* createDatabasePool, createQueueConnection, createQueueFactory, createHealthMonitor
createInstance(s) ==
  /\ IF globalInstance[s] # NoInstance
     THEN /\ lastCall' = Call("create", s, "threw")
          /\ UNCHANGED <<globalInstance, instanceSeq>>
     ELSE /\ instanceSeq[s] < MaxInstances
          /\ instanceSeq' = [instanceSeq EXCEPT ![s] = @ + 1]
          /\ globalInstance' = [globalInstance EXCEPT ![s] = instanceSeq[s] + 1]
          /\ lastCall' = Call("create", s, "returned")
  /\ UNCHANGED <<fvars, nvars, ovars, cvars, hvars, ivars, evars>>

\* getDatabasePool, getQueueConnection, getQueueFactory, getHealthMonitor
getInstance(s) ==
  /\ lastCall' = Call("get", s, IF globalInstance[s] = NoInstance THEN "threw" ELSE "returned")
  /\ UNCHANGED <<globalInstance, instanceSeq, fvars, nvars, ovars, cvars, hvars, ivars, evars>>

\* closeDatabasePool, closeQueueConnection, closeQueueFactory: the instance is closed and
\* then dropped; when pool.end() or redis.quit() rejects, the rejection passes through and
\* the instance stays (QueueFactory.close settles with allSettled and does not reject).
\* checker.ts exports no closeHealthMonitor: the call of health-monitor tests throws
closeInstance(s, closed) ==
  /\ s = "queueFactory" => closed
  /\ IF s = "healthMonitor"
     THEN /\ lastCall' = Call("close", s, "threw")
          /\ UNCHANGED globalInstance
     ELSE IF globalInstance[s] = NoInstance
     THEN /\ lastCall' = Call("close", s, "returned")
          /\ UNCHANGED globalInstance
     ELSE IF closed
     THEN /\ globalInstance' = [globalInstance EXCEPT ![s] = NoInstance]
          /\ lastCall' = Call("close", s, "returned")
     ELSE /\ lastCall' = Call("close", s, "rejected")
          /\ UNCHANGED globalInstance
  /\ UNCHANGED <<instanceSeq, fvars, nvars, ovars, cvars, hvars, ivars, evars>>

---------------------------------------------------------------------------
(* The life of a ScraperService (scraper/src/scraper.ts); LabelerService    *)
(* (labeler/src/service.ts) has the same methods on the LABEL queue         *)

QueueOps == {"enqueue", "stats", "pause", "resume", "clean", "getQueueWorker"}

InitFailures == {"none", "database", "connect"}

NoOp == [op |-> "none", wasRunning |-> FALSE, outcome |-> "none", touched |-> FALSE]

\* the guard that opens queueScrapingJob, getQueueStats, pauseQueue, resumeQueue,
\* cleanQueue and getQueueWorker
AlwaysInitialized == FALSE

NotInitialized == ~isRunning

\* one of the guarded methods: it throws before any call on the factory, or goes on to
\* factory.addJob, getQueueStats, pauseQueue, resumeQueue, cleanQueue (getQueueWorker
\* returns the worker)
QueueOperation(op) ==
  /\ lastOp' = [op |-> op, wasRunning |-> isRunning,
                outcome |-> IF NotInitialized THEN "threw" ELSE "returned",
                touched |-> ~NotInitialized /\ op # "getQueueWorker"]
  /\ UNCHANGED <<ovars, cvars, hvars, ivars, fvars, nvars, uvars, exY>>

\* initialize(), lines 202-229: the database pool, createQueueConnection() and connect(),
\* createQueueFactory(), the monitor and a new worker, then isRunning = true; whatever
\* throws is rethrown by the catch, which undoes nothing
initialize(fail) ==
  /\ instanceSeq["queueConnection"] < MaxInstances
  /\ instanceSeq["queueFactory"] < MaxInstances
  /\ IF fail = "database" \/ globalInstance["queueConnection"] # NoInstance
     THEN /\ lastOp' = [op |-> "initialize", wasRunning |-> isRunning, outcome |-> "threw",
                        touched |-> FALSE]
          /\ UNCHANGED <<worker, isRunning, queuesState, connState, globalInstance,
                         instanceSeq>>
     ELSE IF fail = "connect" \/ globalInstance["queueFactory"] # NoInstance
     THEN /\ globalInstance' = [globalInstance EXCEPT
                                  !["queueConnection"] = instanceSeq["queueConnection"] + 1]
          /\ instanceSeq' = [instanceSeq EXCEPT !["queueConnection"] = @ + 1]
          /\ lastOp' = [op |-> "initialize", wasRunning |-> isRunning, outcome |-> "threw",
                        touched |-> FALSE]
          /\ UNCHANGED <<worker, isRunning, queuesState, connState>>
     ELSE /\ globalInstance' = [globalInstance EXCEPT
                                  !["queueConnection"] = instanceSeq["queueConnection"] + 1,
                                  !["queueFactory"] = instanceSeq["queueFactory"] + 1]
          /\ instanceSeq' = [instanceSeq EXCEPT !["queueConnection"] = @ + 1,
                                                !["queueFactory"] = @ + 1]
          /\ worker' = [worker EXCEPT
                          ![ServiceKind] = [isShuttingDown |-> FALSE, closed |-> FALSE,
                                            graceElapsed |-> FALSE]]
          /\ isRunning' = TRUE
          /\ queuesState' = "open"
          /\ connState' = "open"
          /\ lastOp' = [op |-> "initialize", wasRunning |-> isRunning,
                        outcome |-> "returned", touched |-> FALSE]
  /\ UNCHANGED <<jobs, dlq, dlqSeq, replay, addOutcome, svc, lastCall, svars, pvars, rvars,
                 lvars, wvars, dvars, cvars, hvars, fvars, nvars, exY>>

\* the caller of shutdown() has its answer
ShutdownAnswered(c) ==
  /\ svc[c] \in {"resolved", "rejected"}
  /\ svc' = [svc EXCEPT ![c] = "idle"]
  /\ lastOp' = [op |-> "shutdown", wasRunning |-> isRunning,
                outcome |-> IF svc[c] = "resolved" THEN "returned" ELSE "threw",
                touched |-> FALSE]
  /\ UNCHANGED <<isRunning, queuesState, connState, ovars, cvars, hvars, fvars, nvars,
                 uvars, exY>>

---------------------------------------------------------------------------
(* LabelerService.queueMultipleLabelingJobs (labeler/src/service.ts)        *)

MaxIds == 3

ReviewIdPool == {"r1", "r2", "r3"}

\* reviewIds: lists of distinct ids
InputIdLists ==
  {ids \in UNION {[1..n -> ReviewIdPool] : n \in 0..MaxIds} :
     \A i, j \in 1..Len(ids) : i # j => ids[i] # ids[j]}

\* options.batchSize: absent, or a number
BatchSizeOptions == {<<>>, <<1>>, <<2>>}

\* options.correlationId: absent, a label, or a UUID
CorrelationIdOptions == {<<>>, <<"batch-test">>, <<"123e4567-e89b-42d3-a456-426614174000">>}

NoMulti ==
  [called |-> FALSE, reviewIds |-> <<>>, batchSize |-> 0, correlationId |-> <<>>,
   jobIds |-> <<>>]

\* z.string().uuid(): 36 characters in the groups 8-4-4-4-12
IsUuid(str) ==
  /\ Len(str) = 36
  /\ \A i \in {9, 14, 19, 24} : SubSeq(str, i, i) = "-"

\* options.batchSize || 20
EffectiveBatchSize(option) == IF Len(option) = 0 \/ option[1] = 0 THEN 20 ELSE option[1]

\* options.correlationId || `batch-${Date.now()}-${i}`
EffectiveCorrelationId(option, i) ==
  IF Len(option) = 0 \/ option[1] = "" THEN "batch-0-" \o ToString(i) ELSE option[1]

\* reviewIds.slice(i, i + batchSize), i counted from 0
BatchAt(ids, i, b) == SubSeq(ids, i + 1, Min(i + b, Len(ids)))

\* queueLabelingJob -> factory.addJob: validateJobPayload with LabelReviewsJobSchema;
\* correlationId is z.string().uuid().optional()
LabelPayloadOk(batch, b, correlationId) ==
  /\ SchemaOk("label_reviews", LabelRaw(batch, <<b>>, <<2>>))
  /\ IsUuid(correlationId)

\* the loop of lines 107-124 from offset i on: a batch whose addJob throws is logged and
\* skipped
RECURSIVE QueuedBatches(_, _, _, _)
QueuedBatches(ids, i, b, option) ==
  IF i >= Len(ids) THEN <<>>
  ELSE (IF LabelPayloadOk(BatchAt(ids, i, b), b, EffectiveCorrelationId(option, i))
        THEN <<BatchAt(ids, i, b)>> ELSE <<>>)
       \o QueuedBatches(ids, i + b, b, option)

queueMultipleLabelingJobs(reviewIds, batchOption, correlationOption) ==
  /\ ~multi.called
  /\ isRunning
  /\ jobs = <<>>
  /\ LET b == EffectiveBatchSize(batchOption)
         batches == QueuedBatches(reviewIds, 0, b, correlationOption)
     IN /\ jobs' = [i \in 1..Len(batches) |->
                      NewJob("label_reviews",
                             validateJobPayload("label_reviews",
                                                LabelRaw(batches[i], <<b>>, <<2>>)),
                             2)]
        /\ multi' = [called |-> TRUE, reviewIds |-> reviewIds, batchSize |-> b,
                     correlationId |-> correlationOption,
                     jobIds |-> [i \in 1..Len(batches) |-> i]]
  /\ addOutcome' = "added"
  /\ UNCHANGED <<dlq, dlqSeq, worker, replay, svars, pvars, rvars, lvars, wvars, dvars,
                 cvars, hvars, ivars, fvars, nvars, uvars, exM>>

---------------------------------------------------------------------------
(* Transaction and withTransaction (shared/src/database/transaction.ts)     *)

MaxTxClients == 2

TxCallers == {"a", "b"}

NoTxClient == 0

IdleTxCall == [pc |-> "idle", op |-> "none", wasActive |-> FALSE, outcome |-> "none"]

IdleWith == [pc |-> "idle", fn |-> "none", issued |-> {}, error |-> "none"]

TxInFlight == {c \in TxCallers : txCall[c].pc \notin {"idle", "done"}}

Threw(c, op, message) ==
  [txCall EXCEPT ![c] = [pc |-> "done", op |-> op, wasActive |-> tx.isActive,
                         outcome |-> message]]

\* the guard of query, commit and rollback
NotActive == ~tx.isActive \/ tx.client = NoTxClient

\* begin(), lines 22-28: the guard, then pool.getClient() is awaited
txBegin(c) ==
  /\ txCall[c].pc \in {"idle", "done"}
  /\ IF tx.isActive
     THEN txCall' = Threw(c, "begin", "Transaction already active")
     ELSE txCall' = [txCall EXCEPT ![c] = [pc |-> "getClient", op |-> "begin",
                                           wasActive |-> FALSE, outcome |-> "none"]]
  /\ UNCHANGED <<tx, released>>

\* pool.getClient() settles; with a client, BEGIN is sent
txClientSettles(c, acquired) ==
  /\ txCall[c].pc = "getClient"
  /\ IF acquired
     THEN /\ Len(released) < MaxTxClients
          /\ released' = Append(released, 0)
          /\ tx' = [tx EXCEPT !.client = Len(released) + 1]
          /\ txCall' = [txCall EXCEPT ![c].pc = "BEGIN"]
     ELSE /\ txCall' = [txCall EXCEPT ![c].pc = "done", ![c].outcome = "threw"]
          /\ UNCHANGED <<tx, released>>

\* begin(), lines 30-47: BEGIN succeeded and the transaction is active, or the catch
\* releases this.client and rethrows
txBeginSettles(c, ok) ==
  /\ txCall[c].pc = "BEGIN"
  /\ IF ok
     THEN /\ tx' = [tx EXCEPT !.isActive = TRUE]
          /\ txCall' = [txCall EXCEPT ![c].pc = "done", ![c].outcome = "returned"]
          /\ UNCHANGED released
     ELSE /\ released' = IF tx.client = NoTxClient THEN released
                         ELSE [released EXCEPT ![tx.client] = @ + 1]
          /\ tx' = [tx EXCEPT !.client = NoTxClient]
          /\ txCall' = [txCall EXCEPT ![c].pc = "done", ![c].outcome = "threw"]

\* query(): the guard, then the statement, which answers or fails
txQuery(c, ok) ==
  /\ txCall[c].pc \in {"idle", "done"}
  /\ txCall' = [txCall EXCEPT
                  ![c] = [pc |-> "done", op |-> "query", wasActive |-> tx.isActive,
                          outcome |-> IF NotActive THEN "Transaction not active"
                                      ELSE IF ok THEN "returned" ELSE "threw"]]
  /\ UNCHANGED <<tx, released>>

\* commit() and rollback() up to their await: the guard, then COMMIT or ROLLBACK is sent
txEnd(c, statement) ==
  /\ txCall[c].pc \in {"idle", "done"}
  /\ IF NotActive
     THEN txCall' = Threw(c, statement, "Transaction not active")
     ELSE txCall' = [txCall EXCEPT ![c] = [pc |-> "ending", op |-> statement,
                                           wasActive |-> TRUE, outcome |-> "none"]]
  /\ UNCHANGED <<tx, released>>

\* the statement settled; finally cleanup(): the client, if any, is released and dropped
txEndSettles(c, ok) ==
  /\ txCall[c].pc = "ending"
  /\ released' = IF tx.client = NoTxClient THEN released
                 ELSE [released EXCEPT ![tx.client] = @ + 1]
  /\ tx' = [isActive |-> FALSE, client |-> NoTxClient]
  /\ txCall' = [txCall EXCEPT ![c].pc = "done",
                              ![c].outcome = IF ok THEN "returned" ELSE "threw"]

\* what a call on the Transaction leaves alone
TxFrame == UNCHANGED <<wt, ovars, cvars, hvars, ivars, fvars, nvars, uvars, exT>>

\* what a step of withTransaction leaves alone
WithFrame == UNCHANGED <<ovars, cvars, hvars, ivars, fvars, nvars, uvars, exT>>

\* withTransaction, lines 146-149: a new Transaction, then begin()
withTransaction ==
  /\ wt.pc = "idle"
  /\ TxInFlight = {}
  /\ ~tx.isActive
  /\ Len(released) < MaxTxClients
  /\ txBegin("a")
  /\ wt' = [IdleWith EXCEPT !.pc = "begin"]
  /\ WithFrame

\* begin() has settled: fn(transaction) is called, or the catch rethrows (the transaction
\* is not active)
withBeginSettled ==
  /\ wt.pc = "begin"
  /\ txCall["a"].pc = "done"
  /\ wt' = IF txCall["a"].outcome = "returned"
           THEN [wt EXCEPT !.pc = "fn"]
           ELSE [wt EXCEPT !.pc = "rejected", !.error = "begin"]
  /\ UNCHANGED <<tx, released, txCall>>
  /\ WithFrame

\* fn has settled: commit() when it resolved (line 150); else the catch calls rollback(),
\* the transaction being active (lines 153-155)
withFnSettled(resolved) ==
  /\ wt.pc = "fn"
  /\ IF resolved
     THEN /\ txEnd("a", "COMMIT")
          /\ wt' = [wt EXCEPT !.pc = "commit", !.fn = "resolved",
                              !.issued = @ \cup (IF NotActive THEN {} ELSE {"COMMIT"})]
     ELSE IF tx.isActive
     THEN /\ txEnd("a", "ROLLBACK")
          /\ wt' = [wt EXCEPT !.pc = "rollback", !.fn = "rejected",
                              !.issued = @ \cup (IF NotActive THEN {} ELSE {"ROLLBACK"})]
     ELSE /\ wt' = [wt EXCEPT !.pc = "rejected", !.fn = "rejected", !.error = "fn"]
          /\ UNCHANGED <<tx, released, txCall>>
  /\ WithFrame

\* commit() has settled: the result is returned (line 151), or what commit() threw is
\* rethrown by the catch, the transaction being inactive after cleanup
withCommitSettled ==
  /\ wt.pc = "commit"
  /\ txCall["a"].pc = "done"
  /\ IF txCall["a"].outcome = "returned"
     THEN /\ wt' = [wt EXCEPT !.pc = "returned"]
          /\ UNCHANGED <<tx, released, txCall>>
     ELSE IF tx.isActive
     THEN /\ txEnd("a", "ROLLBACK")
          /\ wt' = [wt EXCEPT !.pc = "rollback",
                              !.issued = @ \cup (IF NotActive THEN {} ELSE {"ROLLBACK"})]
     ELSE /\ wt' = [wt EXCEPT !.pc = "rejected", !.error = "COMMIT"]
          /\ UNCHANGED <<tx, released, txCall>>
  /\ WithFrame

\* rollback() has settled: `throw error` of line 156 rethrows what was caught, unless
\* rollback() itself threw, which then leaves the catch in its place
withRollbackSettled ==
  /\ wt.pc = "rollback"
  /\ txCall["a"].pc = "done"
  /\ wt' = [wt EXCEPT !.pc = "rejected",
                      !.error = IF txCall["a"].outcome = "returned"
                                THEN (IF wt.fn = "rejected" THEN "fn" ELSE "COMMIT")
                                ELSE "ROLLBACK"]
  /\ UNCHANGED <<tx, released, txCall>>
  /\ WithFrame

\* the caller has the answer of withTransaction
withAnswered ==
  /\ wt.pc \in {"returned", "rejected"}
  /\ wt' = IdleWith
  /\ UNCHANGED <<tx, released, txCall>>
  /\ WithFrame

(***************************************************************************)
(* The codec on a whole scrape payload (shared/src/queue/types.ts).  Every  *)
(* field of a payload is a sequence of length 0 (the key is absent) or 1    *)
(* (the key is given); extra is a key the schema does not name.             *)
(***************************************************************************)

PayloadKeys ==
  {"appId", "countries", "pages", "sortMethods", "throttleMs", "correlationId",
   "priority", "retryAttempts", "delay", "extra"}

NoPayload == [f \in PayloadKeys |-> <<>>]

NoParse == [called |-> FALSE, ok |-> FALSE, value |-> NoPayload]

\* the payloads handed to the codec: for each key, absent, valid values, and a value
\* that violates each constraint on it
ScrapePayloads ==
  [appId : {<<"a1">>, <<"">>},
   countries : {<<>>, << <<"us">> >>, << <<"US", "gb">> >>, << <<"usa">> >>, << <<>> >>},
   pages : {<<>>, <<1>>, <<11>>},
   sortMethods : {<<>>, << <<"helpful", "recent">> >>, << <<"oldest">> >>},
   throttleMs : {<<>>, <<5001>>},
   correlationId : {<<>>, <<"batch-test">>, <<"123e4567-e89b-42d3-a456-426614174000">>},
   priority : {<<>>, <<10>>},
   retryAttempts : {<<>>, <<0>>},
   delay : {<<>>, <<250>>},
   extra : {<<>>, <<"x">>}]

\* the .default(...) of each key that has one
SchemaDefaults ==
  [countries |-> <<"us">>, pages |-> 5, sortMethods |-> <<"recent">>, throttleMs |-> 500,
   priority |-> 5, retryAttempts |-> 3, delay |-> 0]

\* String.prototype.toUpperCase on the codes used here
ToUpperCase(code) ==
  CASE code = "us" -> "US"
    [] code = "gb" -> "GB"
    [] code = "usa" -> "USA"
    [] OTHER -> code

\* the value the schema sees for a key: the given one, or the default
Given(p, f) == Opt(p[f], SchemaDefaults[f])

\* ScrapeReviewsJobSchema merged with BaseJobConfigSchema: every constraint holds
ScrapeReviewsJobSchemaOk(p) ==
  /\ Len(p.appId) = 1 /\ Len(p.appId[1]) >= 1
  /\ LET cs == Given(p, "countries")
     IN Len(cs) >= 1 /\ \A i \in 1..Len(cs) : Len(cs[i]) = 2
  /\ Given(p, "pages") \in 1..10
  /\ LET ms == Given(p, "sortMethods")
     IN Len(ms) >= 1 /\ \A i \in 1..Len(ms) : ms[i] \in {"recent", "helpful"}
  /\ Given(p, "throttleMs") \in 0..5000
  /\ Len(p.correlationId) = 1 => IsUuid(p.correlationId[1])
  /\ Given(p, "priority") \in 1..10
  /\ Given(p, "retryAttempts") \in 0..5
  /\ Given(p, "delay") >= 0

\* what schema.parse returns for a payload that satisfies the schema: the keys of the
\* schema, each with the given value or its default; a key the schema does not name is
\* not copied (z.object strips unknown keys); no value is transformed
ScrapeReviewsJobSchemaParse(p) ==
  [f \in PayloadKeys |->
     IF f = "extra" THEN <<>>
     ELSE IF p[f] = <<>> /\ f \in DOMAIN SchemaDefaults THEN <<SchemaDefaults[f]>>
     ELSE p[f]]

\* one call of validateJobPayload(SCRAPE_REVIEWS, payload): schema.parse returns or throws
ParsePayload(p) ==
  /\ ~codecOut.called
  /\ codecIn' = p
  /\ codecOut' = IF ScrapeReviewsJobSchemaOk(p)
                 THEN [called |-> TRUE, ok |-> TRUE, value |-> ScrapeReviewsJobSchemaParse(p)]
                 ELSE [called |-> TRUE, ok |-> FALSE, value |-> NoPayload]
  /\ UNCHANGED <<ovars, cvars, hvars, ivars, fvars, nvars, uvars, exK>>

NextCodec == \E p \in ScrapePayloads : ParsePayload(p)

(***************************************************************************)
(* DatabasePool (shared/src/database/pool.ts)                               *)
(***************************************************************************)

MaxPools == 3

PoolCallers == {"a", "b"}

\* this.pool = null
NoPool == 0

IdlePoolCall == [pc |-> "idle", op |-> "none", outcome |-> "none", on |-> NoPool]

\* get isInitialized, lines 221-223
isInitialized == pool # NoPool

PoolAnswer(op, outcome, on) == [pc |-> "idle", op |-> op, outcome |-> outcome, on |-> on]

PoolFrame == UNCHANGED <<ovars, cvars, hvars, ivars, fvars, nvars, uvars, exB>>

\* initialize(), lines 46-68: returns at once when this.pool is set; otherwise this.pool
\* is assigned a new pg pool and the connection test is awaited
poolInitialize(c) ==
  /\ poolCall[c].pc = "idle"
  /\ IF pool # NoPool
     THEN /\ poolCall' = [poolCall EXCEPT ![c] = PoolAnswer("initialize", "returned", pool)]
          /\ UNCHANGED <<pool, poolSeq>>
     ELSE /\ poolSeq < MaxPools
          /\ poolSeq' = poolSeq + 1
          /\ pool' = poolSeq + 1
          /\ poolCall' = [poolCall EXCEPT ![c] =
                            [pc |-> "test", op |-> "initialize", outcome |-> "none",
                             on |-> poolSeq + 1]]
  /\ UNCHANGED tested
  /\ PoolFrame

\* lines 85-99: the connection test has settled; the catch logs and rethrows
poolTestSettles(c, ok) ==
  /\ poolCall[c].pc = "test"
  /\ tested' = IF ok THEN tested \cup {poolCall[c].on} ELSE tested
  /\ poolCall' = [poolCall EXCEPT ![c] =
                    PoolAnswer("initialize", IF ok THEN "resolved" ELSE "threw", @.on)]
  /\ UNCHANGED <<pool, poolSeq>>
  /\ PoolFrame

\* close(), lines 205-211: returns at once without a pool, otherwise awaits pool.end()
poolClose(c) ==
  /\ poolCall[c].pc = "idle"
  /\ poolCall' = [poolCall EXCEPT ![c] =
                    IF pool = NoPool
                    THEN PoolAnswer("close", "returned", NoPool)
                    ELSE [pc |-> "end", op |-> "close", outcome |-> "none", on |-> pool]]
  /\ UNCHANGED <<pool, poolSeq, tested>>
  /\ PoolFrame

\* lines 211-218: pool.end() has settled; this.pool = null, or the catch rethrows
poolEndSettles(c, ok) ==
  /\ poolCall[c].pc = "end"
  /\ pool' = IF ok THEN NoPool ELSE pool
  /\ poolCall' = [poolCall EXCEPT ![c] =
                    PoolAnswer("close", IF ok THEN "resolved" ELSE "threw", @.on)]
  /\ UNCHANGED <<poolSeq, tested>>
  /\ PoolFrame

NextPool ==
  \/ \E c \in PoolCallers : poolInitialize(c)
  \/ \E c \in PoolCallers : \E ok \in BOOLEAN : poolTestSettles(c, ok)
  \/ \E c \in PoolCallers : poolClose(c)
  \/ \E c \in PoolCallers : \E ok \in BOOLEAN : poolEndSettles(c, ok)

---------------------------------------------------------------------------
(* The specifications *)

ValidPayloads(k) == {p \in RawPayloads(k) : SchemaOk(k, p)}

InitShared(running) ==
  /\ jobs = <<>>
  /\ dlq = {}
  /\ dlqSeq = 0
  /\ worker = [k \in Kinds |->
               [isShuttingDown |-> FALSE, closed |-> FALSE, graceElapsed |-> FALSE]]
  /\ replay = [o \in Operators |-> Idle]
  /\ addOutcome = "none"
  /\ bulkRetry = NoBulkRetry
  /\ dnow = 0
  /\ lastSweep = NoSweep
  /\ checkers = DefaultCheckers
  /\ hpc = "idle"
  /\ pendingChecks = {}
  /\ dependencies = EmptyMap
  /\ overallStatus = "healthy"
  /\ lastHealthCheck = "none"
  /\ svc = [c \in Callers |-> "idle"]
  /\ isRunning = running
  /\ queuesState = IF running THEN "open" ELSE "none"
  /\ connState = IF running THEN "open" ELSE "none"
  /\ queues = [k \in Kinds |-> NoQueue]
  /\ created = <<>>
  /\ getQueuePc = [c \in FacadeCallers |-> IdleCall]
  /\ lazyConnect = "unset"
  /\ redis = NoClient
  /\ clients = <<>>
  /\ isConnecting = FALSE
  /\ connectionPromise = NoClient
  /\ connectPc = [c \in ConnCallers |-> IdleConnect]
  /\ globalInstance = [s \in Singletons |-> NoInstance]
  /\ instanceSeq = [s \in Singletons |-> 0]
  /\ lastCall = NoCall
  /\ lastOp = NoOp
  /\ multi = NoMulti
  /\ tx = [isActive |-> FALSE, client |-> NoTxClient]
  /\ released = <<>>
  /\ txCall = [c \in TxCallers |-> IdleTxCall]
  /\ wt = IdleWith
  /\ codecIn = NoPayload
  /\ codecOut = NoParse
  /\ pool = NoPool
  /\ poolSeq = 0
  /\ poolCall = [c \in PoolCallers |-> IdlePoolCall]
  /\ tested = {}

\* a service that runs
InitQueue == InitShared(TRUE)

\* constructor: registerDefaultHandlers
InitSupervisor ==
  /\ handlers = DefaultHandlers
  /\ shutdownTimeoutMs = ShutdownTimeout
  /\ sphase = "running"
  /\ sorted = <<>>
  /\ cur = 0
  /\ hrunning = FALSE
  /\ hstart = 0
  /\ now = 0
  /\ throwTimers = {}
  /\ emergencyTimers = {}
  /\ exitCode = "none"
  /\ slog = <<>>

\* a worker that has just been handed a job with the data jobData
ScrapeStart(jobData, appsRows, reviewRows) ==
  /\ pjob = jobData
  /\ ppc = "start"
  /\ appInfo = [title |-> "Unknown App"]
  /\ apps = appsRows
  /\ si = 1
  /\ ci = 1
  /\ pageNum = 1
  /\ pairReviews = <<>>
  /\ acc = <<>>
  /\ completed = 0
  /\ progress = <<>>
  /\ reviewsTable = reviewRows
  /\ savedCount = 0
  /\ saveIdx = 1
  /\ result = NoResult
  /\ observed = EmptyMap
  /\ superseded = {}
  /\ requested = {}
  /\ fetchErrors = {}
  /\ failedIds = {}
  /\ emptyPages = {}
  /\ run = 1
  /\ firstRun = NoFirstRun

\* a label worker that has just been handed a job with the data jobData
LabelStart(jobData, labelRows) ==
  /\ ljob = jobData
  /\ lpc = "start"
  /\ lreviews = <<>>
  /\ bstart = 1
  /\ results = <<>>
  /\ fallbackAt = {}
  /\ labelsTable = labelRows
  /\ lsaveIdx = 1
  /\ lsavedCount = 0
  /\ lfailedRows = {}
  /\ lresult = NoResult
  /\ lprogress = <<>>
  /\ llmKinds = <<>>

InitLabelIdle == LabelStart(LabelJob(<<"r1">>, 1), EmptyMap)

InitScrape ==
  /\ InitQueue
  /\ InitSupervisor
  /\ InitLabelIdle
  /\ InitWorkerIdle
  /\ catalog = EmptyMap
  /\ \E jobData \in ScrapeJobs :
       \E appsRows \in {<<>>, <<[title |-> "Old title"]>>} :
         \E reviewRows \in {EmptyMap, ("r1" :> StoredReview)} :
           ScrapeStart(jobData, appsRows, reviewRows)

Init ==
  /\ InitQueue
  /\ InitSupervisor
  /\ ScrapeStart(ScrapeJob(<<"us">>, <<"recent">>, 1), <<>>, EmptyMap)
  /\ catalog = EmptyMap
  /\ InitLabelIdle
  /\ InitWorkerIdle

\* a service process: clients enqueue, the workers of the two kinds run and are shut down
NextQueue ==
  \/ \E k \in Kinds : \E p \in RawPayloads(k) : AddJob(k, p)
  \/ \E j \in JobIds : Reserve(j)
  \/ \E j \in JobIds : ProcessJobGuard(j)
  \/ \E j \in JobIds : \E dbReachable \in BOOLEAN : \E resolved \in 0..1 :
        ProcessJobBody(j, dbReachable, resolved)
  \/ \E j \in JobIds : PromoteDelayed(j)
  \/ \E k \in Kinds : Shutdown(k)
  \/ \E k \in Kinds : ShutdownReturns(k)
  \/ \E k \in Kinds : GraceElapses(k)

SpecQueue == Init /\ [][NextQueue]_vars

\* an operator process: jobs are enqueued, dead-lettered and replayed; no worker runs
NextDlq ==
  \/ \E k \in Kinds : \E p \in ValidPayloads(k) : AddJob(k, p)
  \/ \E j \in JobIds : \E reason \in Reasons : MoveToDeadLetter(j, reason)
  \/ \E o \in Operators : \E k \in Kinds : \E id \in 1..MaxDlq : ReplayGet(o, k, id)
  \/ \E o \in Operators : ReplayAdd(o)
  \/ \E o \in Operators : ReplayRemove(o)
  \/ \E o \in Operators : ReplayRemoveFails(o)
  \/ \E o \in Operators : ReplayDone(o)

SpecDlq == Init /\ [][NextDlq]_vars

\* the operator process with room for the jobs of two replays of one record: the job that
\* failed and one job for each replay
NextOverlap ==
  \/ \E k \in Kinds : \E p \in ValidPayloads(k) : AddJob(k, p)
  \/ \E j \in JobIds : \E reason \in Reasons : MoveToDeadLetter(j, reason)
  \/ \E o \in Operators : \E k \in Kinds : \E id \in 1..MaxDlq : ReplayGet(o, k, id)
  \/ \E o \in Operators : ReplayAddWithin(o, MaxJobs + 1)
  \/ \E o \in Operators : ReplayRemove(o)
  \/ \E o \in Operators : ReplayRemoveFails(o)
  \/ \E o \in Operators : ReplayDone(o)

SpecOverlap == Init /\ [][NextOverlap]_vars

\* an operator process that replays in bulk: jobs are enqueued and dead-lettered, and the
\* records of one failure reason are replayed together
NextBulk ==
  \/ \E k \in Kinds : \E p \in ValidPayloads(k) : AddJob(k, p)
  \/ \E j \in JobIds : \E reason \in Reasons : MoveToDeadLetter(j, reason)
  \/ \E k \in Kinds : \E failureReason \in Reasons : \E maxJobs \in {<<>>, <<0>>, <<1>>} :
       retryByFailureReason(k, failureReason, maxJobs)
  \/ BulkRetryDone

SpecBulk == Init /\ [][NextBulk]_vars

\* a process with the periodic cleanup: jobs are enqueued and dead-lettered while time
\* passes, and the dead-letter queues are cleaned
NextSweep ==
  \/ \E k \in Kinds : \E p \in ValidPayloads(k) : AddJob(k, p)
  \/ \E j \in JobIds : \E reason \in Reasons : MoveToDeadLetter(j, reason)
  \/ \E k \in Kinds : \E olderThanMs \in {<<>>, <<1>>} : cleanDeadLetterQueue(k, olderThanMs)
  \/ SweepDone
  \/ SweepTick

SpecSweep == Init /\ [][NextSweep]_vars

\* the payloads of a client that sets the retry budget: every allowed value, or none
AttemptPayloads(k) ==
  IF k = "scrape_reviews"
  THEN {ScrapeRaw("a1", <<>>, r) : r \in {<<>>} \cup {<<n>> : n \in 0..5}}
  ELSE {LabelRaw(<<"r1">>, <<>>, r) : r \in {<<>>} \cup {<<n>> : n \in 0..5}}

\* clients enqueue jobs with a retry budget
NextEnqueue ==
  \E k \in Kinds : \E p \in AttemptPayloads(k) : AddJob(k, p)

SpecEnqueue == Init /\ [][NextEnqueue]_vars

\* a health monitor: a custom checker may be registered, and checkHealth is called
NextHealth ==
  \/ \E critical \in {<<>>, <<TRUE>>, <<FALSE>>} : addHealthChecker("custom", critical)
  \/ checkHealth
  \/ \E name \in pendingChecks : \E outcome \in CheckOutcomes : CheckSettles(name, outcome)
  \/ CheckHealthReturns
  \/ CheckHealthDone

\* a running scraper service: jobs are enqueued and processed, and the signal handlers
\* call shutdown()
NextService ==
  \/ \E p \in ValidPayloads(ServiceKind) : AddJob(ServiceKind, p)
  \/ \E j \in JobIds : Reserve(j)
  \/ \E j \in JobIds : ProcessJobGuard(j)
  \/ \E j \in JobIds : ProcessJobBody(j, TRUE, 1)
  \/ ShutdownReturns(ServiceKind)
  \/ \E c \in Callers : ServiceShutdown(c)
  \/ \E c \in Callers : \E ok \in BOOLEAN : WorkerShutdownSettles(c, ok)
  \/ \E c \in Callers : \E closed \in BOOLEAN : FactoryClose(c, closed)
  \/ \E c \in Callers : \E ok \in BOOLEAN : ConnectionClose(c, ok)

SpecService == Init /\ [][NextService]_vars

\* the callers of one queue factory that has not been closed
NextFactory ==
  \/ \E c \in FacadeCallers : \E jobType \in Kinds : getQueue(c, jobType)
  \/ \E c \in FacadeCallers : \E connected \in BOOLEAN : getQueueResumes(c, connected)

SpecFactory == Init /\ [][NextFactory]_vars

\* one QueueConnection and its callers
NextConnection ==
  \/ \E lazy \in BOOLEAN : NewQueueConnection(lazy)
  \/ \E c \in ConnCallers : connect(c)
  \/ \E c \in ConnCallers : getConnection(c)
  \/ \E c \in ConnCallers : \E pong \in BOOLEAN : connectResumes(c, pong)
  \/ \E c \in ConnCallers : joinedSettles(c)
  \/ \E i \in 1..MaxClients : ClientStatus(i)
  \/ \E quit \in BOOLEAN : closeConnection(quit)

SpecConnection == Init /\ [][NextConnection]_vars

\* a process that creates, gets and closes its module-level instances
NextInstances ==
  \/ \E s \in Singletons : createInstance(s)
  \/ \E s \in Singletons : getInstance(s)
  \/ \E s \in Singletons : \E closed \in BOOLEAN : closeInstance(s, closed)

SpecInstances == Init /\ [][NextInstances]_vars

\* a service that has been constructed and not yet initialized
InitLifecycle ==
  /\ InitShared(FALSE)
  /\ InitSupervisor
  /\ ScrapeStart(ScrapeJob(<<"us">>, <<"recent">>, 1), <<>>, EmptyMap)
  /\ catalog = EmptyMap
  /\ InitLabelIdle
  /\ InitWorkerIdle

NextLifecycle ==
  \/ \E fail \in InitFailures : initialize(fail)
  \/ \E op \in QueueOps : QueueOperation(op)
  \/ ShutdownReturns(ServiceKind)
  \/ \E c \in Callers : ServiceShutdown(c)
  \/ \E c \in Callers : \E ok \in BOOLEAN : WorkerShutdownSettles(c, ok)
  \/ \E c \in Callers : \E closed \in BOOLEAN : FactoryClose(c, closed)
  \/ \E c \in Callers : \E ok \in BOOLEAN : ConnectionClose(c, ok)
  \/ \E c \in Callers : ShutdownAnswered(c)

SpecLifecycle == InitLifecycle /\ [][NextLifecycle]_vars

\* one call of queueMultipleLabelingJobs on a running labeler service
NextMulti ==
  \E reviewIds \in InputIdLists : \E batchOption \in BatchSizeOptions :
    \E correlationOption \in CorrelationIdOptions :
      queueMultipleLabelingJobs(reviewIds, batchOption, correlationOption)

SpecMulti == Init /\ [][NextMulti]_vars

\* one Transaction object and its callers
NextTransaction ==
  \/ \E c \in TxCallers : txBegin(c) /\ TxFrame
  \/ \E c \in TxCallers : \E acquired \in BOOLEAN : txClientSettles(c, acquired) /\ TxFrame
  \/ \E c \in TxCallers : \E ok \in BOOLEAN : txBeginSettles(c, ok) /\ TxFrame
  \/ \E c \in TxCallers : \E ok \in BOOLEAN : txQuery(c, ok) /\ TxFrame
  \/ \E c \in TxCallers : \E statement \in {"COMMIT", "ROLLBACK"} :
        txEnd(c, statement) /\ TxFrame
  \/ \E c \in TxCallers : \E ok \in BOOLEAN : txEndSettles(c, ok) /\ TxFrame

SpecTransaction == Init /\ [][NextTransaction]_vars

\* calls of withTransaction, one after the other; the statements answer or fail
NextWith ==
  \/ withTransaction
  \/ \E acquired \in BOOLEAN : txClientSettles("a", acquired) /\ TxFrame
  \/ \E ok \in BOOLEAN : txBeginSettles("a", ok) /\ TxFrame
  \/ withBeginSettled
  \/ \E ok \in BOOLEAN : txQuery("b", ok) /\ TxFrame
  \/ \E resolved \in BOOLEAN : withFnSettled(resolved)
  \/ \E ok \in BOOLEAN : txEndSettles("a", ok) /\ TxFrame
  \/ withCommitSettled
  \/ withRollbackSettled
  \/ withAnswered

SpecWith == Init /\ [][NextWith]_vars

\* calls of initialize() and close() on one DatabasePool
SpecPool == Init /\ [][NextPool]_vars

\* the codec called on a payload
SpecCodec == Init /\ [][NextCodec]_vars

\* every timer fires and every continuation runs
SpecHealth == Init /\ [][NextHealth]_vars /\ WF_vars(NextHealth)

\* the supervisor of one process: handlers are registered, then a signal arrives
NextShutdown ==
  \/ \E n \in UserNames : \E pr \in UserPriorities : addHandler(n, pr)
  \/ \E n \in UserNames : removeHandler(n)
  \/ \E t \in {3, ShutdownTimeout} : setShutdownTimeout(t)
  \/ shutdown
  \/ StartHandler
  \/ HandlerResolves
  \/ HandlerRejects
  \/ HandlerTimesOut
  \/ \E t \in throwTimers : ThrowTimerFires(t)
  \/ FinishHandlers
  \/ ExitZero
  \/ ForceExit
  \/ EmergencyExit
  \/ TickShutdown

SpecShutdown == Init /\ [][NextShutdown]_vars

\* one scrape job run by one worker against the catalog and the database
NextScrape ==
  \/ \E title \in CatalogTitles : ResolveApp(FALSE, title)
  \/ ResolveApp(TRUE, "")
  \/ \E dbOk \in BOOLEAN : EnsureApp(dbOk)
  \/ \E reviews \in CatalogPages : FetchPage(FALSE, reviews)
  \/ FetchPage(TRUE, <<>>)
  \/ \E ok \in BOOLEAN : SaveRow(ok)
  \/ Finish

SpecScrape == InitScrape /\ [][NextScrape]_vars

\* job data asking for one page, for as many pages as the safety limit, and for more
DeepJobs ==
  { ScrapeJob(<<"us">>, <<"recent">>, p) : p \in {1, PageLimit, PageLimit + 1} }
    \cup { ScrapeJob(<<"us", "gb">>, <<"recent">>, 2) }

InitPages ==
  /\ InitQueue
  /\ InitSupervisor
  /\ InitLabelIdle
  /\ InitWorkerIdle
  /\ catalog = EmptyMap
  /\ \E jobData \in DeepJobs : ScrapeStart(jobData, <<>>, EmptyMap)

\* one scrape job over many pages: the catalog answers a page with one review, with an
\* empty page, or throws
NextPages ==
  \/ ResolveApp(FALSE, "App")
  \/ \E dbOk \in BOOLEAN : EnsureApp(dbOk)
  \/ FetchPage(FALSE, <<RawReview("r1", "t1")>>)
  \/ FetchPage(FALSE, <<>>)
  \/ FetchPage(TRUE, <<>>)
  \/ \E ok \in BOOLEAN : SaveRow(ok)
  \/ Finish

SpecPages == InitPages /\ [][NextPages]_vars

InitRerun ==
  /\ InitQueue
  /\ InitSupervisor
  /\ InitLabelIdle
  /\ InitWorkerIdle
  /\ catalog \in [RerunRequests -> CatalogAnswers]
  /\ \E reviewRows \in {EmptyMap, ("r1" :> StoredReview)} :
       ScrapeStart(RerunJob, <<>>, reviewRows)

\* one scrape job run twice by one worker against the same catalog answers
NextRerun ==
  \/ ResolveApp(FALSE, "App")
  \/ \E dbOk \in BOOLEAN : EnsureApp(dbOk)
  \/ FetchCatalogPage
  \/ \E ok \in BOOLEAN : SaveRow(ok)
  \/ Finish
  \/ Rerun

SpecRerun == InitRerun /\ [][NextRerun]_vars

InitLabel ==
  /\ InitQueue
  /\ InitSupervisor
  /\ InitWorkerIdle
  /\ ScrapeStart(ScrapeJob(<<"us">>, <<"recent">>, 1), <<>>, EmptyMap)
  /\ catalog = EmptyMap
  /\ \E jobData \in LabelJobs :
       \E labelRows \in {EmptyMap, ("r1" :> DefaultLabel([id |-> "r1"], "old-model"))} :
         LabelStart(jobData, labelRows)

\* one label job run by one worker against the LLM and the database
NextLabel ==
  \/ \E dbOk \in BOOLEAN : \E n \in 0..Len(ljob.reviewIds) :
        FetchReviews(dbOk, SubSeq(ljob.reviewIds, 1, n))
  \/ lpc = "label" /\ \E resp \in LlmResponses(Batch) : LabelBatchStep(resp)
  \/ \E ok \in BOOLEAN : SaveLabelRow(ok)
  \/ FinishLabel

SpecLabel == InitLabel /\ [][NextLabel]_vars

InitRows ==
  /\ InitQueue
  /\ InitSupervisor
  /\ InitWorkerIdle
  /\ ScrapeStart(ScrapeJob(<<"us">>, <<"recent">>, 1), <<>>, EmptyMap)
  /\ catalog = EmptyMap
  /\ \E jobData \in LabelJobs : LabelStart(jobData, EmptyMap)

\* the pipeline of one app: a scrape job, and after it a label job for its reviews; the
\* rows either job writes may fail one by one
NextRows ==
  \/ ResolveApp(FALSE, "App")
  \/ EnsureApp(TRUE)
  \/ \E reviews \in CatalogPages : FetchPage(FALSE, reviews)
  \/ \E ok \in BOOLEAN : SaveRow(ok)
  \/ Finish
  \/ ppc = "done" /\ FetchReviews(TRUE, ljob.reviewIds)
  \/ lpc = "label" /\ \E kind \in {"good", "low"} :
                         LabelBatchStep(LlmResponse("array", ItemsFor(kind, Batch)))
  \/ LabelBatchStep(LlmResponse("apiError", <<>>))
  \/ \E ok \in BOOLEAN : SaveLabelRow(ok)
  \/ FinishLabel

SpecRows == InitRows /\ [][NextRows]_vars

InitLimiter ==
  /\ InitQueue
  /\ InitSupervisor
  /\ ScrapeStart(ScrapeJob(<<"us">>, <<"recent">>, 1), <<>>, EmptyMap)
  /\ catalog = EmptyMap
  /\ InitLabelIdle
  /\ \E kind \in Kinds : \E env \in {"development", "production"} : WorkerStart(kind, env)

\* the worker of one kind over a queue that always has a job waiting
NextLimiter ==
  \/ StartJob
  \/ JobReturns
  \/ TickWorker

SpecLimiter == InitLimiter /\ [][NextLimiter]_vars

---------------------------------------------------------------------------
(* Claims on the queue, the workers and the dead-letter manager *)

DlqCount(j) ==
  Cardinality({r \in dlq : r.queue = jobs[j].kind /\ r.originalJobId = j})

\* C1: a job whose processor failed on every attempt, as many times as it
\* has attempts, is exactly once in the dead-letter queue of its kind and
\* is not waiting, delayed or active.
C1_Original ==
  \A j \in JobIds :
    jobs[j].procFailures = jobs[j].attempts =>
      /\ DlqCount(j) = 1
      /\ jobs[j].state \notin {"waiting", "delayed", "active"}

\* C2: a job whose processor hit a job-level fault is failed at the queue;
\* it is never recorded as completed.
C2_Original ==
  \A j \in JobIds : jobs[j].result = "failure" => jobs[j].state # "completed"

\* C3: once the grace window of a worker's shutdown has elapsed, no job of
\* that worker is in the active state.
C3_Original ==
  \A k \in Kinds : worker[k].graceElapsed => InProgress(k) = {}

\* C4: a job handed to a worker that is already shutting down goes back to
\* the queue with attemptsMade unchanged, and is never failed by that.
C4_Original ==
  [][\A j \in JobIds :
       (/\ jobs[j].phase = "handed"
        /\ worker[jobs[j].kind].isShuttingDown
        /\ jobs'[j] # jobs[j])
       => /\ jobs'[j].attemptsMade = jobs[j].attemptsMade
          /\ jobs'[j].state = "waiting"]_vars

\* C5: replay of an existing dead-letter record of K adds exactly one job
\* to K, with the record's original payload and no attempt made, and once
\* replay has returned the record is not in K_dlq and the new job is in K.
C5_Replay ==
  /\ [][\A o \in Operators :
          /\ (replay[o].pc = "got" /\ replay'[o].pc = "added") =>
                /\ Len(jobs') = Len(jobs) + 1
                /\ SubSeq(jobs', 1, Len(jobs)) = jobs
                /\ replay'[o].newJob = Len(jobs')
                /\ jobs'[Len(jobs')].kind = replay[o].kind
                /\ jobs'[Len(jobs')].data = replay[o].rec.originalJobData
                /\ jobs'[Len(jobs')].attemptsMade = 0
                /\ jobs'[Len(jobs')].state = "waiting"
          /\ (replay[o].pc = "added" /\ replay'[o].pc = "returned") =>
                jobs' = jobs]_vars
  /\ [](\A o \in Operators :
          replay[o].pc = "returned" =>
            /\ ~\E r \in dlq : r.queue = replay[o].kind /\ r.id = replay[o].rec.id
            /\ replay[o].newJob \in JobIds
            /\ jobs[replay[o].newJob].kind = replay[o].kind
            /\ jobs[replay[o].newJob].data = replay[o].rec.originalJobData)

C5_Witness ==
  \E o \in Operators :
    /\ replay[o].pc = "returned"
    /\ replay[o].rec.id \in 1..dlqSeq
    /\ replay[o].newJob \in JobIds

\* the constraints of section 4.2 a payload can violate
C6_Violates(k, p) ==
  IF k = "scrape_reviews"
  THEN \/ p.appId = ""
       \/ (p.pages # <<>> /\ p.pages[1] \notin 1..10)
       \/ (p.retryAttempts # <<>> /\ p.retryAttempts[1] \notin 0..5)
  ELSE \/ p.reviewIds = <<>>
       \/ (p.batchSize # <<>> /\ p.batchSize[1] \notin 1..100)
       \/ (p.retryAttempts # <<>> /\ p.retryAttempts[1] \notin 0..5)

\* C6: addJob with a payload that violates a constraint of its kind fails
\* with InvalidPayload and adds no job to a queue or a dead-letter queue.
C6_RejectedAtEnqueue ==
  [][\A k \in Kinds : \A p \in RawPayloads(k) :
       (C6_Violates(k, p) /\ AddJob(k, p)) =>
          /\ addOutcome' = "InvalidPayload"
          /\ jobs' = jobs
          /\ dlq' = dlq]_vars

C6_Witness ==
  /\ addOutcome = "InvalidPayload"
  /\ Len(jobs) = 1
  /\ dlq = {}

---------------------------------------------------------------------------
(* Claims on the lifecycle supervisor *)

LogPos(ev, name) ==
  {n \in 1..Len(slog) : slog[n].ev \in ev /\ slog[n].name = name}

\* C7: of two registered handlers with priorities p < q, the one with
\* priority p was started and has finished or timed out before the one
\* with priority q is started.
C7_Original ==
  \A i, j \in 1..Len(sorted) :
    (sorted[i].priority < sorted[j].priority) =>
      \A n \in LogPos({"start"}, sorted[j].name) :
        /\ \E m \in LogPos({"start"}, sorted[i].name) : m < n
        /\ \E m \in LogPos({"end", "timeout"}, sorted[i].name) : m < n

---------------------------------------------------------------------------
(* Claims on the scrape processor *)

AllPairs == (1..Len(pjob.sortMethods)) \X (1..Len(pjob.countries))

LastPair == <<Len(pjob.sortMethods), Len(pjob.countries)>>

NextPair == IF ci < Len(pjob.countries) THEN <<si, ci + 1>> ELSE <<si + 1, 1>>

DistinctIds == DOMAIN observed

\* C8: an exception raised while fetching a page of one (sort, country) pair ends the page
\* loop of that pair only: the step that takes the exception merges the reviews of the
\* pair's earlier pages into the accumulator and goes on to page 1 of the next pair (to the
\* save after the last pair), and a job in which a fetch threw has requested page 1 of
\* every pair and returns success = true.
C8_FetchErrorIsLocal ==
  /\ [][fetchErrors' # fetchErrors =>
          /\ \A i \in 1..Len(pairReviews) :
               \E k \in 1..Len(acc') :
                 acc'[k].id = pairReviews[i].id /\ acc'[k] = observed[pairReviews[i].id]
          /\ IF <<si, ci>> = LastPair
             THEN ppc' = "save"
             ELSE ppc' = "fetch" /\ <<si', ci'>> = NextPair /\ pageNum' = 1]_vars
  /\ [](ppc = "done" /\ fetchErrors # {} =>
          /\ result.success
          /\ \A pair \in AllPairs : <<pair[1], pair[2], 1>> \in requested)

\* a finished job in which page 2 of a pair that is not the last one threw
C8_Witness ==
  /\ ppc = "done"
  /\ result.success
  /\ \E e \in fetchErrors : e[3] = 2 /\ <<e[1], e[2]>> # LastPair
  /\ Len(acc) >= 1

\* C9: for a job that returns success the accumulator holds exactly one entry per
\* reviewId seen on a fetched page, that entry is the observation made last in fetch
\* order, and reviewsScraped and itemsProcessed both equal the number of distinct ids.
C9_LastObservationWins ==
  ppc = "done" /\ result.success =>
    /\ \A k, l \in 1..Len(acc) : acc[k].id = acc[l].id => k = l
    /\ {acc[k].id : k \in 1..Len(acc)} = DistinctIds
    /\ \A k \in 1..Len(acc) : acc[k] = observed[acc[k].id]
    /\ result.reviewsScraped = Cardinality(DistinctIds)
    /\ result.itemsProcessed = Cardinality(DistinctIds)

\* a successful job that saw two ids, one of them again with other content
C9_Witness ==
  /\ ppc = "done"
  /\ result.success
  /\ Cardinality(DistinctIds) = 2
  /\ superseded # {}

\* C10 as stated: for every job that completes, the number of rows inserted or updated
\* in the reviews table equals the number of distinct reviewIds on the fetched pages.
C10_Original ==
  ppc = "done" => savedCount = Cardinality(DistinctIds)

\* C10 amended: for every job that completes, the number of rows inserted or updated
\* equals the number of distinct reviewIds on the fetched pages less those whose row
\* upsert failed, and each of the others has a row carrying its last observed text.
C10_SavedRows ==
  ppc = "done" =>
    /\ failedIds \subseteq DistinctIds
    /\ savedCount = Cardinality(DistinctIds \ failedIds)
    /\ \A id \in DistinctIds \ failedIds :
         id \in DOMAIN reviewsTable /\ reviewsTable[id].text = observed[id].text

\* a finished job of which one row was written and another row failed
C10_Witness ==
  /\ ppc = "done"
  /\ result.success
  /\ failedIds # {}
  /\ savedCount >= 1

PagesRequested(s, c) == {e \in requested : e[1] = s /\ e[2] = c}

\* C12: for each (sort, country) pair the pages requested are 1, 2, ..., k in ascending
\* order with k at most min(pages, 10): every request is for the page after the last one
\* requested for its pair, within the limit, and for a pair none of whose pages came back
\* empty; and a job with pages = 1 that returns has requested exactly page 1 of each pair.
C12_PagesInOrder ==
  /\ [][requested' # requested =>
          \E n \in 1..10 :
            /\ n <= pjob.pages
            /\ n = Cardinality(PagesRequested(si, ci)) + 1
            /\ requested' = requested \cup {<<si, ci, n>>}
            /\ <<si, ci, n>> \notin requested
            /\ \A e \in emptyPages : <<e[1], e[2]>> # <<si, ci>>]_vars
  /\ [](ppc = "done" /\ result.success /\ pjob.pages = 1 =>
          \A pair \in AllPairs : PagesRequested(pair[1], pair[2]) = {<<pair[1], pair[2], 1>>})

\* a job asking for eleven pages has returned after ten non-empty pages
C12_Witness ==
  /\ ppc = "done"
  /\ pjob.pages = 11
  /\ Cardinality(requested) = 10
  /\ emptyPages = {}
  /\ fetchErrors = {}

---------------------------------------------------------------------------
(* Claims on the label processor *)

\* the answers of the LLM that are a failed call or cannot be parsed into an array
FailedLlmKinds == {"apiError", "noContent", "invalidJson", "noArray"}

\* C13: when the LLM call of a batch fails or its answer cannot be parsed into an array,
\* every review of the batch gets the default label (General Feedback, neutral, severity
\* 1, no feature request, empty quote, confidence 0) under its own reviewId, the next
\* batch is still processed, and the job returns success = true.
C13_BatchFallback ==
  /\ [][(Len(llmKinds') > Len(llmKinds) /\ llmKinds'[Len(llmKinds')] \in FailedLlmKinds) =>
          /\ Len(results') = Len(results) + Len(Batch)
          /\ \A i \in 1..Len(Batch) :
               results'[Len(results) + i] =
                 [reviewId |-> Batch[i].id, theme |-> "General Feedback",
                  sentiment |-> "neutral", severity |-> 1, featureRequest |-> FALSE,
                  directQuote |-> Text(0), confidence |-> 0, modelVersion |-> ljob.model]
          /\ \A i \in 1..Len(results) : results'[i] = results[i]
          /\ IF bstart + BatchSize <= Len(lreviews)
             THEN lpc' = "label" /\ bstart' = bstart + BatchSize
             ELSE lpc' = "save"]_vars
  /\ [](lpc = "done" /\ llmKinds # <<>> => lresult.success /\ bstart > Len(lreviews))

\* a job of two batches has returned: the first batch fell back, the second was labelled
C13_Witness ==
  /\ lpc = "done"
  /\ lresult.success
  /\ Len(llmKinds) = 2
  /\ llmKinds[1] = "invalidJson"
  /\ llmKinds[2] = "array"
  /\ Len(results) = 2
  /\ results[1].confidence = 0
  /\ results[2].confidence = 90

\* C14 as stated: every label has severity an integer in 1..5, confidence in [0,1] (0..100
\* hundredths), sentiment positive, neutral or negative, and a direct quote that is a
\* string of at most 100 characters.
C14_Original ==
  \A i \in 1..Len(results) :
    /\ results[i].severity \in 1..5
    /\ results[i].confidence \in 0..100
    /\ results[i].sentiment \in {"positive", "neutral", "negative"}
    /\ results[i].directQuote.k = "text"
    /\ Len(results[i].directQuote.q) <= 100

\* C15 as stated: every label has a theme that is an entry of the taxonomy or the
\* fallback General Feedback.
C15_Original ==
  \A i \in 1..Len(results) :
    results[i].theme \in TaxonomyThemes \cup {"General Feedback"}

\* C16 as stated: sanitizing a label that is already sanitized returns the same label.
C16_Original ==
  \A i \in 1..Len(results) :
    sanitize(AsRawItem(results[i]), results[i].modelVersion) = results[i]

\* C17 as stated: labelReviews returns exactly one label for each review it was given,
\* each under the id of a distinct input review.
C17_Original ==
  lpc \in {"save", "done"} /\ lreviews # <<>> =>
    /\ Len(results) = Len(lreviews)
    /\ \A i \in 1..Len(results) : \E j \in 1..Len(lreviews) : results[i].reviewId = lreviews[j].id
    /\ \A i, j \in 1..Len(results) : results[i].reviewId = results[j].reviewId => i = j

---------------------------------------------------------------------------
(* Claims on the rows the two processors write *)

---------------------------------------------------------------------------
(* Claims on the rate limiter *)

\* C19 as stated: in any window of length W (60 s, two ticks) the number of jobs of the
\* kind that the worker starts is at most max: 10 for scrape jobs, 5 for label jobs.
C19_Original ==
  \A t \in 0..(MaxTicks - 1) :
    wstarts[t] + wstarts[t + 1] <= (IF wkind = "scrape_reviews" THEN 10 ELSE 5)

---------------------------------------------------------------------------
(* Claims on the bulk replay *)

Contains(str, sub) ==
  \E i \in 1..(Len(str) - Len(sub) + 1) : SubSeq(str, i, i + Len(sub) - 1) = sub

\* C20 as stated: a bulk replay in which no single replay fails replays exactly the
\* dead-letter records of K whose failure reason contains the given substring, at most
\* maxJobs of them (at most 10 when maxJobs is not given), and returns the ids of the new
\* jobs; the records whose reason does not contain the substring stay in the DLQ.
C20_Original ==
  [][(bulkRetry.pc = "idle" /\ bulkRetry'.pc = "returned" /\ bulkRetry'.threw = 0) =>
       LET containing == {r \in dlq : /\ r.queue = bulkRetry'.kind
                                      /\ Contains(r.failureReason, bulkRetry'.failureReason)}
           atMost == IF Len(bulkRetry'.maxJobs) = 0 THEN 10 ELSE bulkRetry'.maxJobs[1]
       IN /\ dlq' \subseteq dlq
          /\ (dlq \ dlq') \subseteq containing
          /\ Cardinality(dlq \ dlq') = Min(Cardinality(containing), atMost)
          /\ Len(bulkRetry'.retried) = Cardinality(dlq \ dlq')
          /\ Len(jobs') = Len(jobs) + Cardinality(dlq \ dlq')
          /\ \A i \in 1..Len(bulkRetry'.retried) :
               /\ bulkRetry'.retried[i] \in (Len(jobs) + 1)..Len(jobs')
               /\ jobs'[bulkRetry'.retried[i]].kind = bulkRetry'.kind]_vars

---------------------------------------------------------------------------
(* Claims on the dead-letter sweep *)

\* C21 as stated: a sweep of K removes from K_dlq every record that failed longer ago than
\* olderThan (30 days when not given): once it has run, no such record is left.
C21_Original ==
  [][(lastSweep = NoSweep /\ lastSweep' # NoSweep) =>
       \A r \in dlq' : r.queue = lastSweep'.kind => dnow - r.failedAt <= lastSweep'.olderThan]_vars

---------------------------------------------------------------------------
(* Claims on the attempts budget *)

\* C22 as stated: the job that enqueuing a valid payload adds has an attempts budget equal
\* to the payload's retry budget, for every value 0..5, and equal to the default of the
\* kind, 3 for scrape jobs and 2 for label jobs, when the payload gives none.
C22_Original ==
  [][\A k \in Kinds : \A p \in AttemptPayloads(k) :
       (/\ Len(jobs') = Len(jobs) + 1
        /\ jobs'[Len(jobs')].kind = k
        /\ jobs'[Len(jobs')].data = validateJobPayload(k, p))
       => jobs'[Len(jobs')].attempts =
            (IF Len(p.retryAttempts) = 1 THEN p.retryAttempts[1]
             ELSE IF k = "label_reviews" THEN 2 ELSE 3)]_vars

---------------------------------------------------------------------------
(* Claims on the apps table *)

\* C23 as stated: once step 2 of a scrape job has succeeded, the apps table has a row for
\* the app whose mutable fields equal the appInfo resolved in step 1, whether or not a row
\* existed before the job.
C23_Original ==
  (\E i \in 1..Len(progress) : progress[i] = 30)
    => Len(apps) = 1 /\ apps[1] = appInfo

---------------------------------------------------------------------------
(* Claims on the exits of the supervisor *)

\* C24 as stated: after an uncaught exception (an emergency shutdown was started) the
\* process exits with status 1 and does so within 1 s, also when a graceful shutdown is
\* in progress.
C24_Original ==
  /\ (sphase = "exited" /\ emergencyTimers # {}) => exitCode = "1"
  /\ sphase # "exited" => \A t \in emergencyTimers : now <= t

\* the handler loop of shutdown() has not run to its end
Unfinished == cur < Len(sorted) \/ hrunning

\* C25: a shutdown is never in progress past shutdownTimeoutMs after its start, and a
\* process that exits while the handler loop has not run to its end exits with status 1
\* (by the force-exit timer at the deadline, or by an emergency exit before it).
C25_ForceExitAtDeadline ==
  /\ sphase \in {"shutdown", "done"} => now <= shutdownTimeoutMs
  /\ (sphase = "exited" /\ Unfinished) => exitCode = "1" /\ now <= shutdownTimeoutMs
  /\ (sphase = "exited" /\ exitCode = "0") => ~Unfinished /\ now <= shutdownTimeoutMs

\* the force-exit timer ended a shutdown whose handler was still awaited at the deadline
C25_Witness ==
  /\ sphase = "exited"
  /\ exitCode = "1"
  /\ hrunning
  /\ now = shutdownTimeoutMs
  /\ emergencyTimers = {}

---------------------------------------------------------------------------
(* Claims on the health monitor *)

CriticalNames == {c.name : c \in {x \in checkers : x.critical}}

\* the overall status that follows from the statuses of the settled checks alone
StatusOf(deps) ==
  IF \E n \in DOMAIN deps : n \in CriticalNames /\ deps[n] = "unhealthy" THEN "unhealthy"
  ELSE IF \E n \in DOMAIN deps : deps[n] = "degraded" THEN "degraded"
  ELSE "healthy"

\* C26: the health that checkHealth returns is unhealthy when some critical check is
\* unhealthy (it answered unhealthy, threw or timed out), otherwise degraded when some check
\* is degraded, otherwise healthy, in whatever order the checks settle; and a checkHealth
\* that was called returns.
C26_OverallStatus ==
  /\ [](hpc = "checking" => overallStatus = StatusOf(dependencies))
  /\ [](hpc = "returned" =>
          /\ lastHealthCheck = StatusOf(dependencies)
          /\ DOMAIN dependencies = {c.name : c \in checkers})
  /\ (hpc = "checking") ~> (hpc = "returned")

\* a health was returned for which a degraded check settled after an unhealthy critical one
\* had made the status unhealthy, one check having timed out
C26_Witness ==
  /\ hpc = "returned"
  /\ lastHealthCheck = "unhealthy"
  /\ \E n \in DOMAIN dependencies : dependencies[n] = "degraded"
  /\ \E n \in DOMAIN dependencies : n \notin CriticalNames /\ dependencies[n] = "unhealthy"

---------------------------------------------------------------------------
(* Claims on the shutdown of the service *)

\* C27 as stated: the worker is shut down, its job in progress finished, before any queue
\* is closed; every queue is closed before the broker connection is closed; the service is
\* marked not running only after all three steps succeeded; and a shutdown in which a step
\* failed does not resolve.
C27_Original ==
  /\ queuesState # "open" => worker[ServiceKind].closed /\ InProgress(ServiceKind) = {}
  /\ connState # "open" => queuesState = "closed"
  /\ ~isRunning =>
        worker[ServiceKind].closed /\ queuesState = "closed" /\ connState = "closed"
  /\ \A c \in Callers : svc[c] = "resolved" => queuesState = "closed" /\ connState = "closed"

---------------------------------------------------------------------------
(* Claims on the shared objects of a process *)

\* C28 as stated: the factory holds one queue per kind: the calls of getQueue for one
\* kind, overlapping ones included, return the same queue object, and at most one queue
\* object per kind is made while the factory is not closed.
C28_Original ==
  /\ \A k \in Kinds : Cardinality({i \in 1..Len(created) : created[i] = k}) <= 1
  /\ \A c1, c2 \in FacadeCallers :
        /\ getQueuePc[c1].pc = "returned"
        /\ getQueuePc[c2].pc = "returned"
        /\ getQueuePc[c1].kind = getQueuePc[c2].kind
        => getQueuePc[c1].got = getQueuePc[c2].got

\* C29 as stated: the calls of connect and getConnection on one QueueConnection,
\* sequential or overlapping, yield the same Redis client: between construction or the
\* last close and the next close at most one client is made and left open.
C29_Original ==
  /\ Cardinality(LiveClients) <= 1
  /\ \A c1, c2 \in ConnCallers :
        connectPc[c1].pc = "returned" /\ connectPc[c2].pc = "returned"
        => connectPc[c1].got = connectPc[c2].got

\* C30 as stated: a process has at most one global instance each of the database pool,
\* the broker connection, the queue factory and the health monitor: create throws exactly
\* while an instance exists, get throws exactly while none exists, and after a close that
\* the instance did not reject there is no instance, so that a new one can be created.
C30_Original ==
  /\ lastCall.op = "create" => (lastCall.outcome = "threw" <=> lastCall.existed)
  /\ lastCall.op = "get" => (lastCall.outcome = "threw" <=> ~lastCall.existed)
  /\ lastCall.op = "close" /\ lastCall.outcome # "rejected"
        => globalInstance[lastCall.singleton] = NoInstance

---------------------------------------------------------------------------
(* Claims on the life of a service, the database layer and the remaining contracts *)

RECURSIVE Flatten(_)
Flatten(seqs) == IF seqs = <<>> THEN <<>> ELSE Head(seqs) \o Flatten(Tail(seqs))

CeilDiv(n, b) == (n + b - 1) \div b

\* C32 as stated: queueMultipleLabelingJobs(reviewIds, batchSize b) enqueues ceil(n/b)
\* LABEL jobs whose reviewIds lists are the n ids in order, each job with at most b ids,
\* and returns one job id per job, with any correlationId string and with none.
C32_Original ==
  multi.called =>
    /\ Len(jobs) = CeilDiv(Len(multi.reviewIds), multi.batchSize)
    /\ Flatten([i \in 1..Len(jobs) |-> jobs[i].data.reviewIds]) = multi.reviewIds
    /\ \A i \in 1..Len(jobs) : Len(jobs[i].data.reviewIds) <= multi.batchSize
    /\ Len(multi.jobIds) = Len(jobs)

\* C33 as stated: a Transaction is inactive or active: begin() succeeds only when
\* inactive and else throws 'Transaction already active'; query, commit and rollback
\* succeed only when active and else throw 'Transaction not active'; and once commit()
\* or rollback() has settled, or BEGIN has failed, the transaction is inactive and every
\* client it acquired has been released exactly once.
C33_Original ==
  /\ \A c \in TxCallers :
       txCall[c].pc = "done" =>
         /\ txCall[c].op = "begin" /\ txCall[c].wasActive
              => txCall[c].outcome = "Transaction already active"
         /\ txCall[c].op = "begin" /\ txCall[c].outcome = "returned" => ~txCall[c].wasActive
         /\ txCall[c].op \in {"query", "COMMIT", "ROLLBACK"} /\ ~txCall[c].wasActive
              => txCall[c].outcome = "Transaction not active"
         /\ txCall[c].op \in {"query", "COMMIT", "ROLLBACK"} /\ txCall[c].outcome = "returned"
              => txCall[c].wasActive
  /\ \A i \in 1..Len(released) : released[i] <= 1
  /\ TxInFlight = {} /\ ~tx.isActive => \A i \in 1..Len(released) : released[i] = 1

\* C34 as stated: withTransaction(fn) issues COMMIT and returns fn's result when fn
\* resolves (it rejects only with what COMMIT threw), and issues ROLLBACK and rejects with
\* the error fn threw when fn rejects; it never issues both for one call.
C34_Original ==
  /\ wt.issued # {"COMMIT", "ROLLBACK"}
  /\ wt.pc \in {"returned", "rejected"} /\ wt.fn = "resolved" =>
       /\ wt.issued = {"COMMIT"}
       /\ wt.pc = "returned" \/ wt.error = "COMMIT"
  /\ wt.pc \in {"returned", "rejected"} /\ wt.fn = "rejected" =>
       /\ wt.issued = {"ROLLBACK"}
       /\ wt.pc = "rejected" /\ wt.error = "fn"
  /\ wt.pc = "returned" => wt.fn = "resolved"

NonDecreasing(seq) == \A i, j \in 1..Len(seq) : i <= j => seq[i] <= seq[j]

Reported(seq, v) == \E i \in 1..Len(seq) : seq[i] = v

IsPrefix(seq, of) == Len(seq) <= Len(of) /\ \A i \in 1..Len(seq) : seq[i] = of[i]

\* C35 as stated: the progress values of one job never decrease and lie in 0..100; for
\* SCRAPE 10 is reported after app info is resolved, 20 after the app upsert, 30 before
\* the loop, then values up to 90 for the completed pairs and 95 after persistence; for
\* LABEL 10, 20, 80, 95; and 100 is reported last and only when the job returns success.
C35_Original ==
  /\ NonDecreasing(progress) /\ \A i \in 1..Len(progress) : progress[i] \in 0..100
  /\ Reported(progress, 10) => ppc # "start"
  /\ Reported(progress, 20) => Len(apps) >= 1
  /\ Reported(progress, 30) => Reported(progress, 20)
  /\ \A i \in 1..Len(progress) :
       progress[i] > 30 /\ progress[i] < 95 => progress[i] <= 90 /\ Reported(progress, 30)
  /\ Reported(progress, 95) => savedCount + Cardinality(failedIds) = Len(ReviewsToSave(acc))
  /\ Reported(progress, 100) =>
       progress[Len(progress)] = 100 /\ ppc = "done" /\ result.success
  /\ IsPrefix(lprogress, <<10, 20, 80, 95, 100>>)
  /\ Reported(lprogress, 100) => lpc = "done" /\ lresult.success

\* the output the codec is said to give: the input with absent keys set to their
\* defaults and the country codes in uppercase, every other key as given
ClaimedOutput(p) ==
  [f \in PayloadKeys |->
     IF f = "countries"
     THEN LET cs == Given(p, "countries")
          IN << [i \in 1..Len(cs) |-> ToUpperCase(cs[i])] >>
     ELSE IF p[f] = <<>> /\ f \in DOMAIN SchemaDefaults THEN <<SchemaDefaults[f]>>
     ELSE p[f]]

\* C36 as stated: for every valid payload the codec's output equals the input with
\* absent fields set to their defaults and the country codes converted to uppercase; no
\* other field is added, removed or changed.
C36_Original == codecOut.called /\ codecOut.ok => codecOut.value = ClaimedOutput(codecIn)

\* C37 as stated: a shutdown handler that throws or exceeds its own timeout does not stop
\* the shutdown: every handler after it in priority order is still run to completion or
\* to its own timeout, and when all handlers are done before shutdownTimeoutMs the
\* process exits with status 0.  So a process that has exited before shutdownTimeoutMs
\* has run its handler loop to the end and has exited with status 0.
C37_Original ==
  (sphase = "exited" /\ now < shutdownTimeoutMs) => ~Unfinished /\ exitCode = "0"

\* the calls of retryFromDeadLetter that have enqueued a job for the record with this id
\* and have not thrown
ReplayedBy(id) ==
  {o \in Operators : replay[o].pc \in {"added", "returned"} /\ replay[o].rec.id = id}

\* C38 as stated: two replay requests for the same dead-letter record that overlap in
\* time enqueue at most one new job between them: a dead-letter record is never replayed
\* into more than one job.
C38_Original == \A id \in 1..MaxDlq : Cardinality(ReplayedBy(id)) <= 1

\* C39 as stated: DatabasePool.isInitialized is true only after an initialize() call has
\* completed successfully: when initialize() fails its connection test the pool is left
\* uninitialized, so that a later initialize() attempts the connection again instead of
\* returning immediately.  Checked while no connection test is awaited.
C39_Original ==
  (isInitialized /\ \A c \in PoolCallers : poolCall[c].pc # "test") => pool \in tested

\* no global queue connection and no global queue factory is registered
NothingRegistered ==
  /\ globalInstance["queueConnection"] = NoInstance
  /\ globalInstance["queueFactory"] = NoInstance

\* C40 as stated: a service releases every process-wide resource it registered, both on
\* shutdown and when initialize() fails part-way: after shutdown() has returned, or after
\* initialize() has thrown, no global queue connection or queue factory instance is left
\* registered, so initialize() on a service in the same process can succeed again.
C40_Original ==
  (\/ lastOp.op = "shutdown" /\ lastOp.outcome = "returned"
   \/ lastOp.op = "initialize" /\ lastOp.outcome = "threw")
  => NothingRegistered

====
